---- MODULE Spec2Model ----
(***************************************************************************)
(* Model of the DataCleaner node's algorithm library                       *)
(* (src/nodes/DataCleaner/utils.ts) and of the node's deduplication        *)
(* handler (executeDeduplicateFuzzy).                                      *)
(*                                                                         *)
(* A JavaScript string is a sequence of one-character strings.  A score    *)
(* (a JavaScript number that is a ratio of small integers) is an exact     *)
(* rational <<n, d>> in lowest terms with d > 0.                           *)
(***************************************************************************)
EXTENDS Integers, Sequences, FiniteSets, TLC

VARIABLES
    \* one call of a pure library function
    fn,                 \* the function applied, "none" before the call
    str1, str2,         \* its two string arguments
    prefixScale,        \* jaroWinklerSimilarity's third argument
    ret,                \* its return value
    \* one run of the node's Deduplicate (Fuzzy) operation
    pc,                 \* position of the handler
    items,              \* the input batch: a sequence of records (item.json)
    fieldsToCheckRaw,   \* node parameter 'fieldsToCheck' (the comma-separated text, split)
    fuzzyThreshold,     \* node parameter 'fuzzyThreshold'
    fieldsToCheck,      \* the parsed field list
    i, j,               \* loop indices of findFuzzyDuplicates (0-based)
    processedIndices,   \* findFuzzyDuplicates' Set of indices
    currentGroup,       \* the DuplicateGroup under construction
    duplicateGroups,    \* the groups pushed so far
    compared,           \* history: the index pairs <<i, j>> handed to the field loop
    lastCompare,        \* history: the latest pair decision
    result,             \* the handler's outcome
    \* one or two calls of transformObjectKeys
    inputJson,          \* the value handed to the call
    keyFormat,          \* its caseType: 'snake_case' or 'camelCase'
    transformedJson     \* the value returned

simVars == <<fn, str1, str2, prefixScale, ret>>
dedupVars == <<pc, items, fieldsToCheckRaw, fuzzyThreshold, fieldsToCheck, i, j,
               processedIndices, currentGroup, duplicateGroups, compared,
               lastCompare, result>>
keyVars == <<inputJson, keyFormat, transformedJson>>
vars == <<fn, str1, str2, prefixScale, ret, pc, items, fieldsToCheckRaw,
          fuzzyThreshold, fieldsToCheck, i, j, processedIndices, currentGroup,
          duplicateGroups, compared, lastCompare, result, inputJson, keyFormat,
          transformedJson>>

----------------------------------------------------------------------------
(* Bounds of the model *)

\* longest string of the exhaustive string pool
MaxLen == 2
\* longest input batch of a deduplication run
MaxItems == 3
\* most entries of the object handed to transformObjectKeys
MaxEntries == 2
\* longest string of the exhaustive pool of the case conversions
MaxCaseLen == 3
\* most words of a text handed to toTitleCase
MaxWords == 3
\* most digits of a phone number of the pool
MaxPhoneDigits == 16

----------------------------------------------------------------------------
(* Numbers *)

Min2(a, b) == IF a <= b THEN a ELSE b
Max2(a, b) == IF a >= b THEN a ELSE b
Abs(a) == IF a < 0 THEN 0 - a ELSE a

RECURSIVE Gcd(_, _)
Gcd(a, b) == IF b = 0 THEN a ELSE Gcd(b, a % b)

\* the rational n/d (d # 0) in lowest terms with a positive denominator
Rat(n, d) ==
    LET g == Gcd(Abs(n), Abs(d))
        s == IF d < 0 THEN 0 - 1 ELSE 1
    IN  <<(s * n) \div g, (s * d) \div g>>

RInt(n) == <<n, 1>>
RAdd(x, y) == Rat(x[1] * y[2] + y[1] * x[2], x[2] * y[2])
RSub(x, y) == Rat(x[1] * y[2] - y[1] * x[2], x[2] * y[2])
RMul(x, y) == Rat(x[1] * y[1], x[2] * y[2])
RDiv(x, y) == Rat(x[1] * y[2], x[2] * y[1])
RLeq(x, y) == x[1] * y[2] <= y[1] * x[2]
RLt(x, y) == x[1] * y[2] < y[1] * x[2]
RGeq(x, y) == RLeq(y, x)
RMin(x, y) == IF RLeq(x, y) THEN x ELSE y

Zero == RInt(0)
One == RInt(1)

----------------------------------------------------------------------------
(* Strings: String.prototype.toLowerCase, String.prototype.trim *)

UpperChars == <<"A", "B", "C", "D", "E", "F", "G", "H", "I", "J", "K", "L", "M",
                "N", "O", "P", "Q", "R", "S", "T", "U", "V", "W", "X", "Y", "Z">>
LowerChars == <<"a", "b", "c", "d", "e", "f", "g", "h", "i", "j", "k", "l", "m",
                "n", "o", "p", "q", "r", "s", "t", "u", "v", "w", "x", "y", "z">>
WhiteSpace == {" ", "\t", "\n"}

toLowerChar(c) ==
    IF \E k \in 1..Len(UpperChars) : UpperChars[k] = c
    THEN LowerChars[CHOOSE k \in 1..Len(UpperChars) : UpperChars[k] = c]
    ELSE c

toLowerCase(s) == [k \in 1..Len(s) |-> toLowerChar(s[k])]

RECURSIVE trimStart(_)
trimStart(s) ==
    IF s # <<>> /\ Head(s) \in WhiteSpace
    THEN LET rest == Tail(s) IN trimStart(rest)
    ELSE s

RECURSIVE trimEnd(_)
trimEnd(s) ==
    IF s # <<>> /\ s[Len(s)] \in WhiteSpace
    THEN LET rest == SubSeq(s, 1, Len(s) - 1) IN trimEnd(rest)
    ELSE s

trim(s) == LET started == trimStart(s) IN trimEnd(started)

\* trimming without case-folding
NormalizeTrimOnly(s) == trim(s)

\* str.toLowerCase().trim()
Normalize(s) == LET lowered == toLowerCase(s) IN trim(lowered)

----------------------------------------------------------------------------
(* SimilarityEngine: levenshteinDistance *)

\* new Array(n): every slot reads as undefined
Undefined == "undefined"

LevCellNoSubstitution(left, up, diag, cost) == Min2(left + 1, up + 1)

\* Math.min(currentRow[j-1] + 1, previousRow[j] + 1, previousRow[j-1] + cost)
LevCell(left, up, diag, cost) == Min2(Min2(left + 1, up + 1), diag + cost)

\* TLC evaluates an operator's argument where it is read, and again at every
\* read, unless the argument is a name bound by LET: the loops below bind each
\* pass's new state by LET before they pass it on, and Strict has v evaluated
\* before e, so that a loop's state is a value at every pass
Strict(v, e) == IF v = v THEN e ELSE e

\* the loop "for (let j = 1; j <= shorter.length; j++)" from index jj on
RECURSIVE LevInnerLoop(_, _, _, _, _, _)
LevInnerLoop(longer, shorter, ii, jj, previousRow, currentRow) ==
    IF jj > Len(shorter)
    THEN currentRow
    ELSE LET cost == IF longer[ii] = shorter[jj] THEN 0 ELSE 1
             cell == LevCell(currentRow[jj - 1], previousRow[jj],
                             previousRow[jj - 1], cost)
             row == [currentRow EXCEPT ![jj] = cell]
         IN  Strict(cell,
                    LevInnerLoop(longer, shorter, ii, jj + 1, previousRow, row))

\* the loop "for (let i = 1; i <= longer.length; i++)" from index ii on; the
\* rows are swapped at the end of every pass, and previousRow is the result
RECURSIVE LevOuterLoop(_, _, _, _, _)
LevOuterLoop(longer, shorter, ii, previousRow, currentRow) ==
    IF ii > Len(longer)
    THEN previousRow
    ELSE LET started == [currentRow EXCEPT ![0] = ii]
             filled == LevInnerLoop(longer, shorter, ii, 1, previousRow, started)
         IN  Strict(filled[Len(shorter)],
                    LevOuterLoop(longer, shorter, ii + 1, filled, previousRow))

\* const [shorter, longer] = s1.length <= s2.length ? [s1, s2] : [s2, s1]
PickShorter(s1, s2) == IF Len(s1) <= Len(s2) THEN <<s1, s2>> ELSE <<s2, s1>>

levenshteinDistance(a, b) ==
    LET s1 == Normalize(a)
        s2 == Normalize(b)
        sl == PickShorter(s1, s2)
        shorter == sl[1]
        longer == sl[2]
        previousRow == [k \in 0..Len(shorter) |-> k]
        currentRow == [k \in 0..Len(shorter) |-> Undefined]
    IN  IF s1 = s2 THEN 0
        ELSE IF Len(s1) = 0 THEN Len(s2)
        ELSE IF Len(s2) = 0 THEN Len(s1)
        ELSE LevOuterLoop(longer, shorter, 1, previousRow, currentRow)[Len(shorter)]

levenshteinSimilarityNormalizedLength(a, b) ==
    LET distance == levenshteinDistance(a, b)
        maxLength == Max2(Len(Normalize(a)), Len(Normalize(b)))
        share == Rat(distance, maxLength)
    IN  IF maxLength = 0 THEN One ELSE RSub(One, share)

levenshteinSimilarity(a, b) ==
    IF a = <<>> /\ b = <<>> THEN One
    ELSE IF a = <<>> \/ b = <<>> THEN Zero
    ELSE LET distance == levenshteinDistance(a, b)
             maxLength == Max2(Len(a), Len(b))
             share == Rat(distance, maxLength)
         IN  IF maxLength = 0 THEN One ELSE RSub(One, share)

----------------------------------------------------------------------------
(* SimilarityEngine: jaroSimilarity, jaroWinklerSimilarity, fuzzyMatch *)

\* the loop "for (let j = start; j < end; j++)": the first j in [jj, end) that
\* is unmatched in s2 and carries s1[ii], or -1 when the loop ends without one
RECURSIVE JaroFindMatch(_, _, _, _, _, _)
JaroFindMatch(s1, s2, ii, jj, end, s2Matches) ==
    IF jj >= end THEN 0 - 1
    ELSE IF s2Matches[jj] \/ s1[ii + 1] # s2[jj + 1]
         THEN JaroFindMatch(s1, s2, ii, jj + 1, end, s2Matches)
         ELSE jj

\* the loop "for (let i = 0; i < s1.length; i++)" that marks the matches
RECURSIVE JaroMatchLoop(_, _, _, _, _, _, _)
JaroMatchLoop(s1, s2, matchWindowSize, ii, s1Matches, s2Matches, matches) ==
    IF ii >= Len(s1)
    THEN [s1Matches |-> s1Matches, s2Matches |-> s2Matches, matches |-> matches]
    ELSE LET start == Max2(0, ii - matchWindowSize)
             end == Min2(ii + matchWindowSize + 1, Len(s2))
             hit == JaroFindMatch(s1, s2, ii, start, end, s2Matches)
             marked1 == [s1Matches EXCEPT ![ii] = TRUE]
             marked2 == [s2Matches EXCEPT ![hit] = TRUE]
             counted == matches + 1
         IN  IF hit < 0
             THEN JaroMatchLoop(s1, s2, matchWindowSize, ii + 1, s1Matches,
                                s2Matches, matches)
             ELSE JaroMatchLoop(s1, s2, matchWindowSize, ii + 1, marked1, marked2,
                                counted)

\* while (!s2Matches[k]) k++
RECURSIVE JaroSkip(_, _)
JaroSkip(s2Matches, k) == IF s2Matches[k] THEN k ELSE JaroSkip(s2Matches, k + 1)

\* the loop that counts the transpositions
RECURSIVE JaroTranspositions(_, _, _, _, _, _, _)
JaroTranspositions(s1, s2, s1Matches, s2Matches, ii, k, transpositions) ==
    IF ii >= Len(s1) THEN transpositions
    ELSE IF ~s1Matches[ii]
         THEN JaroTranspositions(s1, s2, s1Matches, s2Matches, ii + 1, k,
                                 transpositions)
         ELSE LET kk == JaroSkip(s2Matches, k)
                  counted == IF s1[ii + 1] # s2[kk + 1] THEN transpositions + 1
                                                        ELSE transpositions
                  after == kk + 1
              IN  JaroTranspositions(s1, s2, s1Matches, s2Matches, ii + 1, after,
                                     counted)

\* the share of the first string counted twice
JaroFormulaFirstShareTwice(matches, transpositions, len1, len2) ==
    RDiv(RAdd(RAdd(Rat(matches, len1), Rat(matches, len1)),
              RDiv(RSub(RInt(matches), Rat(transpositions, 2)), RInt(matches))),
         RInt(3))

\* (matches/|s1| + matches/|s2| + (matches - transpositions/2)/matches) / 3
JaroFormula(matches, transpositions, len1, len2) ==
    LET share1 == Rat(matches, len1)
        share2 == Rat(matches, len2)
        halfTranspositions == Rat(transpositions, 2)
        inOrder == RSub(RInt(matches), halfTranspositions)
        share3 == RDiv(inOrder, RInt(matches))
        shares12 == RAdd(share1, share2)
        sum == RAdd(shares12, share3)
    IN  RDiv(sum, RInt(3))

jaroSimilarity(a, b) ==
    LET s1 == Normalize(a)
        s2 == Normalize(b)
        matchWindow == (Max2(Len(s1), Len(s2)) \div 2) - 1
        matchWindowSize == Max2(0, matchWindow)
        none1 == [k \in 0..(Len(s1) - 1) |-> FALSE]
        none2 == [k \in 0..(Len(s2) - 1) |-> FALSE]
        m == JaroMatchLoop(s1, s2, matchWindowSize, 0, none1, none2, 0)
        s1Matches == m.s1Matches
        s2Matches == m.s2Matches
        transpositions == JaroTranspositions(s1, s2, s1Matches, s2Matches, 0, 0, 0)
    IN  IF s1 = s2 THEN One
        ELSE IF Len(s1) = 0 \/ Len(s2) = 0 THEN Zero
        ELSE IF m.matches = 0 THEN Zero
        ELSE JaroFormula(m.matches, transpositions, Len(s1), Len(s2))

\* Math.min(4, ...): the longest prefix that is rewarded
MaxPrefix == 4
\* Math.min(prefixScale, 0.25)
ScaleCap == Rat(1, 4)
\* prefixScale: number = 0.1
DefaultPrefixScale == Rat(1, 10)

\* the loop "for (let i = 0; i < maxPrefixLength; i++)" with its break
RECURSIVE CommonPrefixLength(_, _, _, _)
CommonPrefixLength(s1, s2, ii, maxPrefixLength) ==
    IF ii < maxPrefixLength /\ s1[ii + 1] = s2[ii + 1]
    THEN CommonPrefixLength(s1, s2, ii + 1, maxPrefixLength)
    ELSE ii

WinklerPrefixLength(a, b) ==
    LET s1 == Normalize(a)
        s2 == Normalize(b)
        maxPrefixLength == Min2(MaxPrefix, Min2(Len(s1), Len(s2)))
    IN  CommonPrefixLength(s1, s2, 0, maxPrefixLength)

BoundedScaleUncapped(scale) == scale

\* const boundedScale = Math.min(prefixScale, 0.25)
BoundedScale(scale) == RMin(scale, ScaleCap)

jaroWinklerSimilarity(a, b, scale) ==
    LET jaroSim == jaroSimilarity(a, b)
        prefixLength == WinklerPrefixLength(a, b)
        boundedScale == BoundedScale(scale)
        weight == RMul(RInt(prefixLength), boundedScale)
        rest == RSub(One, jaroSim)
        boost == RMul(weight, rest)
    IN  IF jaroSim = Zero THEN Zero
        ELSE RAdd(jaroSim, boost)

\* str1.length < 10 && str2.length < 10
ShortLimit == 10

fuzzyMatchAlwaysLevenshtein(a, b) == levenshteinSimilarity(a, b)

fuzzyMatch(a, b) ==
    IF Len(a) < ShortLimit /\ Len(b) < ShortLimit
    THEN jaroWinklerSimilarity(a, b, DefaultPrefixScale)
    ELSE levenshteinSimilarity(a, b)

----------------------------------------------------------------------------
(* Inputs of the library calls *)

Alphabet == {"a", "b", "A", " "}

\* every string over Alphabet of length at most n
RECURSIVE StringsUpTo(_)
StringsUpTo(n) ==
    IF n = 0 THEN {<<>>}
    ELSE LET shorter == StringsUpTo(n - 1)
         IN  shorter \cup {Append(s, c) : s \in {t \in shorter : Len(t) = n - 1},
                                             c \in Alphabet}

JohnSmith == <<"J", "o", "h", "n", " ", "S", "m", "i", "t", "h">>
JonSmith == <<"J", "o", "n", " ", "S", "m", "i", "t", "h">>
JonSmyt == <<"J", "o", "n", " ", "S", "m", "y", "t">>
JaneDoe == <<"J", "a", "n", "e", " ", "D", "o", "e">>
JohnSmithShouted ==
    <<" ", "J", "O", "H", "N", " ", "S", "M", "I", "T", "H", " ">>
TenSpaces == <<" ", " ", " ", " ", " ", " ", " ", " ", " ", " ">>
Abab == <<"a", "b", "a", "b">>
Baba == <<"b", "a", "b", "a">>
Abba == <<"a", "b", "b", "a">>
PaddedAB == <<" ", "a", "B", " ">>
Aab == <<"a", "a", "b">>

\* strings longer than the exhaustive pool: names, strings of ten and more
\* characters, strings whose matches are transposed
ExtraStrings == {JohnSmith, JonSmith, JonSmyt, JaneDoe, JohnSmithShouted,
                 TenSpaces, Abab, Baba, Abba, PaddedAB, Aab}

Strings == StringsUpTo(MaxLen) \cup ExtraStrings

\* the default, the cap and a value above the cap
PrefixScales == {Rat(1, 10), Rat(1, 4), Rat(1, 2)}

----------------------------------------------------------------------------
(* The deduplication run at rest *)

NoGroup == [keepIndex |-> 0 - 1, duplicateIndices |-> <<>>, similarityScores |-> <<>>]
NoCompare == [i |-> 0 - 1, j |-> 0 - 1, similarity |-> Zero, joined |-> FALSE]
NoResult == [status |-> "none"]

KeysIdle ==
    /\ inputJson = [type |-> "undefined", text |-> <<>>]
    /\ keyFormat = "snake_case"
    /\ transformedJson = [type |-> "undefined", text |-> <<>>]

DedupIdle ==
    /\ pc = "idle"
    /\ items = <<>>
    /\ fieldsToCheckRaw = <<>>
    /\ fuzzyThreshold = Zero
    /\ fieldsToCheck = <<>>
    /\ i = 0
    /\ j = 0
    /\ processedIndices = {}
    /\ currentGroup = NoGroup
    /\ duplicateGroups = <<>>
    /\ compared = {}
    /\ lastCompare = NoCompare
    /\ result = NoResult

----------------------------------------------------------------------------
(* SpecSim: one call of a SimilarityEngine function on a pair of strings *)

InitSim ==
    /\ fn = "none"
    /\ str1 \in Strings
    /\ str2 \in Strings
    /\ prefixScale = DefaultPrefixScale
    /\ ret = Zero
    /\ DedupIdle
    /\ KeysIdle

LevenshteinDistanceCall ==
    /\ fn = "none"
    /\ fn' = "levenshteinDistance"
    /\ ret' = levenshteinDistance(str1, str2)
    /\ UNCHANGED <<str1, str2, prefixScale, dedupVars, keyVars>>

LevenshteinSimilarityCall ==
    /\ fn = "none"
    /\ fn' = "levenshteinSimilarity"
    /\ ret' = levenshteinSimilarity(str1, str2)
    /\ UNCHANGED <<str1, str2, prefixScale, dedupVars, keyVars>>

JaroSimilarityCall ==
    /\ fn = "none"
    /\ fn' = "jaroSimilarity"
    /\ ret' = jaroSimilarity(str1, str2)
    /\ UNCHANGED <<str1, str2, prefixScale, dedupVars, keyVars>>

JaroWinklerSimilarityCall ==
    /\ fn = "none"
    /\ \E scale \in PrefixScales :
          /\ prefixScale' = scale
          /\ ret' = jaroWinklerSimilarity(str1, str2, scale)
    /\ fn' = "jaroWinklerSimilarity"
    /\ UNCHANGED <<str1, str2, dedupVars, keyVars>>

FuzzyMatchCall ==
    /\ fn = "none"
    /\ fn' = "fuzzyMatch"
    /\ ret' = fuzzyMatch(str1, str2)
    /\ UNCHANGED <<str1, str2, prefixScale, dedupVars, keyVars>>

NextSim ==
    \/ LevenshteinDistanceCall
    \/ LevenshteinSimilarityCall
    \/ JaroSimilarityCall
    \/ JaroWinklerSimilarityCall
    \/ FuzzyMatchCall

SpecSim == InitSim /\ [][NextSim]_vars

----------------------------------------------------------------------------
(* Deduplicator: records, field values and their string coercion *)

\* a JSON value: a string, a number (held as its decimal rendering) or null
StringValue(s) == [type |-> "string", text |-> s]
NumberValue(digits) == [type |-> "number", text |-> digits]
NullValue == [type |-> "null", text |-> <<>>]

NameField == <<"n", "a", "m", "e">>
EmailField == <<"e", "m", "a", "i", "l">>

\* items[i][field]: a missing key reads as undefined, which ?? treats as null
Lookup(record, field) ==
    IF field \in DOMAIN record THEN record[field] ELSE NullValue

\* String(value ?? '')
Coerce(value) == IF value.type = "null" THEN <<>> ELSE value.text

\* the loop "for (const field of fieldsToCheck)" from the k-th field on
RECURSIVE FieldLoop(_, _, _, _, _, _)
FieldLoop(record1, record2, fields, k, totalSimilarity, fieldCount) ==
    IF k > Len(fields)
    THEN [totalSimilarity |-> totalSimilarity, fieldCount |-> fieldCount]
    ELSE LET value1 == Coerce(Lookup(record1, fields[k]))
             value2 == Coerce(Lookup(record2, fields[k]))
         IN  IF value1 = <<>> /\ value2 = <<>>
             THEN FieldLoop(record1, record2, fields, k + 1, totalSimilarity,
                            fieldCount)
             ELSE FieldLoop(record1, record2, fields, k + 1,
                            RAdd(totalSimilarity, fuzzyMatch(value1, value2)),
                            fieldCount + 1)

\* the average over every field of the list, the empty pairs included
AverageOverAllFields(sums, fields) ==
    IF Len(fields) > 0
    THEN RDiv(sums.totalSimilarity, RInt(Len(fields)))
    ELSE Zero

\* fieldCount > 0 ? totalSimilarity / fieldCount : 0
Average(sums, fields) ==
    IF sums.fieldCount > 0
    THEN RDiv(sums.totalSimilarity, RInt(sums.fieldCount))
    ELSE Zero

\* the averageSimilarity of one pair of records
AverageSimilarity(record1, record2, fields) ==
    LET sums == FieldLoop(record1, record2, fields, 1, Zero, 0)
    IN  Average(sums, fields)

AlreadyProcessedNever(index, processed) == FALSE

\* processedIndices.has(index)
AlreadyProcessed(index, processed) == index \in processed

IsDuplicateStrict(averageSimilarity, threshold) == RLt(threshold, averageSimilarity)

\* if (averageSimilarity >= threshold)
IsDuplicate(averageSimilarity, threshold) == RGeq(averageSimilarity, threshold)

----------------------------------------------------------------------------
(* Inputs of a deduplication run *)

RecJohnSmith == [f \in {NameField} |-> StringValue(JohnSmith)]
RecJonSmith == [f \in {NameField} |-> StringValue(JonSmith)]
RecJaneDoe == [f \in {NameField} |-> StringValue(JaneDoe)]
RecNoName == [f \in {NameField} |-> NullValue]
RecJonSmithZero ==
    [f \in {NameField, EmailField} |->
        IF f = NameField THEN StringValue(JonSmith) ELSE NumberValue(<<"0">>)]

RecordPool == {RecJohnSmith, RecJonSmith, RecJaneDoe, RecNoName, RecJonSmithZero}

\* every sequence over S of length at most n
RECURSIVE SeqsUpTo(_, _)
SeqsUpTo(S, n) ==
    IF n = 0 THEN {<<>>}
    ELSE LET shorter == SeqsUpTo(S, n - 1)
         IN  shorter \cup {Append(q, x) : q \in {t \in shorter : Len(t) = n - 1},
                                             x \in S}

\* the parameter text after .split(','): '', ' name', 'name, email ', ' ,'
RawFieldLists ==
    { << <<>> >>,
      << <<" ">> \o NameField >>,
      << NameField, <<" ">> \o EmailField \o <<" ">> >>,
      << <<" ">>, <<>> >> }

ValidThresholds == {Zero, Rat(1, 2), Rat(4, 5), One}
Thresholds == ValidThresholds \cup {Rat(0 - 1, 10), Rat(11, 10)}

\* .map((field) => field.trim()).filter((field) => field.length > 0)
ParseFields(raw) ==
    SelectSeq([k \in 1..Len(raw) |-> trim(raw[k])], LAMBDA f : Len(f) > 0)

SimIdle ==
    /\ fn = "none"
    /\ str1 = <<>>
    /\ str2 = <<>>
    /\ prefixScale = DefaultPrefixScale
    /\ ret = Zero

----------------------------------------------------------------------------
(* Spec: one run of executeDeduplicateFuzzy, which validates the parameters *)
(* and calls deduplicateFuzzy, which calls findFuzzyDuplicates              *)

Init ==
    /\ pc = "start"
    /\ items \in SeqsUpTo(RecordPool, MaxItems)
    /\ fieldsToCheckRaw \in RawFieldLists
    /\ fuzzyThreshold \in Thresholds
    /\ fieldsToCheck = <<>>
    /\ i = 0
    /\ j = 0
    /\ processedIndices = {}
    /\ currentGroup = NoGroup
    /\ duplicateGroups = <<>>
    /\ compared = {}
    /\ lastCompare = NoCompare
    /\ result = NoResult
    /\ SimIdle
    /\ KeysIdle

ThresholdAlwaysValid(threshold) == TRUE

\* the negation of "fuzzyThreshold < 0 || fuzzyThreshold > 1"
ThresholdValid(threshold) == ~(RLt(threshold, Zero) \/ RLt(One, threshold))

\* executeDeduplicateFuzzy up to the call of deduplicateFuzzy: a thrown
\* NodeOperationError ends the run
Validate ==
    /\ pc = "start"
    /\ LET parsed == ParseFields(fieldsToCheckRaw)
       IN  IF Len(parsed) = 0
           THEN /\ pc' = "failed"
                /\ result' = [status |-> "error",
                              message |-> "At least one field must be specified"]
                /\ UNCHANGED fieldsToCheck
           ELSE IF ~ThresholdValid(fuzzyThreshold)
           THEN /\ pc' = "failed"
                /\ result' = [status |-> "error",
                              message |-> "Fuzzy threshold must be between 0.0 and 1.0"]
                /\ UNCHANGED fieldsToCheck
           ELSE /\ pc' = "outer"
                /\ fieldsToCheck' = parsed
                /\ UNCHANGED result
    /\ UNCHANGED <<items, fieldsToCheckRaw, fuzzyThreshold, i, j, processedIndices,
                   currentGroup, duplicateGroups, compared, lastCompare, simVars,
                   keyVars>>

\* findFuzzyDuplicates, outer loop: "if (processedIndices.has(i)) continue"
OuterSkip ==
    /\ pc = "outer"
    /\ i < Len(items)
    /\ AlreadyProcessed(i, processedIndices)
    /\ i' = i + 1
    /\ UNCHANGED <<pc, items, fieldsToCheckRaw, fuzzyThreshold, fieldsToCheck, j,
                   processedIndices, currentGroup, duplicateGroups, compared,
                   lastCompare, result, simVars, keyVars>>

\* outer loop: a new currentGroup with keepIndex i, and the inner loop starts
OuterOpen ==
    /\ pc = "outer"
    /\ i < Len(items)
    /\ ~AlreadyProcessed(i, processedIndices)
    /\ currentGroup' = [keepIndex |-> i, duplicateIndices |-> <<>>,
                        similarityScores |-> <<>>]
    /\ j' = i + 1
    /\ pc' = "inner"
    /\ UNCHANGED <<items, fieldsToCheckRaw, fuzzyThreshold, fieldsToCheck, i,
                   processedIndices, duplicateGroups, compared, lastCompare,
                   result, simVars, keyVars>>

\* inner loop: "if (processedIndices.has(j)) continue"
InnerSkip ==
    /\ pc = "inner"
    /\ j < Len(items)
    /\ AlreadyProcessed(j, processedIndices)
    /\ j' = j + 1
    /\ UNCHANGED <<pc, items, fieldsToCheckRaw, fuzzyThreshold, fieldsToCheck, i,
                   processedIndices, currentGroup, duplicateGroups, compared,
                   lastCompare, result, simVars, keyVars>>

\* inner loop: the field loop, the average and the threshold test for (i, j)
InnerCompare ==
    /\ pc = "inner"
    /\ j < Len(items)
    /\ ~AlreadyProcessed(j, processedIndices)
    /\ \E averageSimilarity \in
              {AverageSimilarity(items[i + 1], items[j + 1], fieldsToCheck)} :
       \E joins \in {IsDuplicate(averageSimilarity, fuzzyThreshold)} :
           /\ IF joins
              THEN /\ currentGroup' =
                          [currentGroup EXCEPT
                              !.duplicateIndices = Append(@, j),
                              !.similarityScores = Append(@, averageSimilarity)]
                   /\ processedIndices' = processedIndices \cup {j}
              ELSE UNCHANGED <<currentGroup, processedIndices>>
           /\ lastCompare' = [i |-> i, j |-> j, similarity |-> averageSimilarity,
                              joined |-> joins]
    /\ compared' = compared \cup {<<i, j>>}
    /\ j' = j + 1
    /\ UNCHANGED <<pc, items, fieldsToCheckRaw, fuzzyThreshold, fieldsToCheck, i,
                   duplicateGroups, result, simVars, keyVars>>

\* end of the inner loop: "if (currentGroup.duplicateIndices.length > 0) push"
InnerDone ==
    /\ pc = "inner"
    /\ j >= Len(items)
    /\ duplicateGroups' = IF Len(currentGroup.duplicateIndices) > 0
                          THEN Append(duplicateGroups, currentGroup)
                          ELSE duplicateGroups
    /\ i' = i + 1
    /\ pc' = "outer"
    /\ UNCHANGED <<items, fieldsToCheckRaw, fuzzyThreshold, fieldsToCheck, j,
                   processedIndices, currentGroup, compared, lastCompare, result,
                   simVars, keyVars>>

\* the first duplicate of every group only
IndicesToRemoveFirstOfEach(groups) ==
    {groups[g].duplicateIndices[1] : g \in 1..Len(groups)}

\* the indices of all groups' duplicateIndices: deduplicateFuzzy's indicesToRemove
IndicesToRemove(groups) ==
    UNION {{groups[g].duplicateIndices[k] : k \in 1..Len(groups[g].duplicateIndices)}
              : g \in 1..Len(groups)}

RECURSIVE FilterKeptOffByOne(_, _, _)
FilterKeptOffByOne(records, remove, k) ==
    IF k >= Len(records) THEN <<>>
    ELSE IF (k + 1) \in remove
         THEN FilterKeptOffByOne(records, remove, k + 1)
         ELSE <<records[k + 1]>> \o FilterKeptOffByOne(records, remove, k + 1)

\* items.filter((_, index) => !indicesToRemove.has(index)), from index k on
RECURSIVE FilterKept(_, _, _)
FilterKept(records, remove, k) ==
    IF k >= Len(records) THEN <<>>
    ELSE IF k \in remove
         THEN FilterKept(records, remove, k + 1)
         ELSE <<records[k + 1]>> \o FilterKept(records, remove, k + 1)

\* a JSON object or array that the handler attaches as metadata
ObjectValue(content) == [type |-> "object", text |-> <<>>, content |-> content]

DeduplicationInfoField ==
    <<"_", "d", "e", "d", "u", "p", "l", "i", "c", "a", "t", "i", "o", "n",
      "I", "n", "f", "o">>
ChangesField == <<"_", "c", "h", "a", "n", "g", "e", "s">>

\* json[field] = value: the key is added, or overwritten when it is there
SetField(json, field, value) == (field :> value) @@ json

\* findFuzzyDuplicates returns; deduplicateFuzzy filters and counts; the handler
\* wraps the kept records as its return data and, as the parameters
\* outputDuplicateInfo and trackChanges say, writes _deduplicationInfo and
\* _changes into the first of them
Finish ==
    /\ pc = "outer"
    /\ i >= Len(items)
    /\ \E outputDuplicateInfo \in BOOLEAN, trackChanges \in BOOLEAN :
          LET indicesToRemove == IndicesToRemove(duplicateGroups)
              deduplicated == FilterKept(items, indicesToRemove, 0)
              removedCount == Cardinality(indicesToRemove)
              info == ObjectValue([originalCount |-> Len(items),
                                   deduplicatedCount |-> Len(deduplicated),
                                   removedCount |-> removedCount,
                                   duplicateGroupsFound |-> Len(duplicateGroups),
                                   fieldsChecked |-> fieldsToCheck,
                                   thresholdUsed |-> fuzzyThreshold])
              changes == ObjectValue(IF removedCount > 0
                                     THEN <<[field |-> "_records",
                                             before |-> Len(items),
                                             after |-> Len(deduplicated),
                                             operation |-> "deduplicateFuzzy"]>>
                                     ELSE <<>>)
              withInfo(json) == IF outputDuplicateInfo
                                THEN SetField(json, DeduplicationInfoField, info)
                                ELSE json
              withChanges(json) == IF trackChanges
                                   THEN SetField(json, ChangesField, changes)
                                   ELSE json
              returnData == [k \in 1..Len(deduplicated) |->
                                [json |-> IF k = 1
                                          THEN withChanges(withInfo(deduplicated[k]))
                                          ELSE deduplicated[k]]]
          IN  result' = [status |-> "ok",
                         deduplicated |-> deduplicated,
                         removedCount |-> removedCount,
                         duplicateGroups |-> duplicateGroups,
                         outputDuplicateInfo |-> outputDuplicateInfo,
                         trackChanges |-> trackChanges,
                         returnData |-> returnData]
    /\ pc' = "done"
    /\ UNCHANGED <<items, fieldsToCheckRaw, fuzzyThreshold, fieldsToCheck, i, j,
                   processedIndices, currentGroup, duplicateGroups, compared,
                   lastCompare, simVars, keyVars>>

Next ==
    \/ Validate
    \/ OuterSkip
    \/ OuterOpen
    \/ InnerSkip
    \/ InnerCompare
    \/ InnerDone
    \/ Finish

Spec == Init /\ [][Next]_vars

----------------------------------------------------------------------------
(* Properties of the deduplication run *)

\* the groups in existence: those pushed and, inside the inner loop, the open one
AllGroups ==
    IF pc = "inner" THEN Append(duplicateGroups, currentGroup) ELSE duplicateGroups

\* the places <<g, k>> at which index x is listed as a duplicate
PlacesOf(groups, x) ==
    {p \in {<<g, k>> : g \in 1..Len(groups), k \in 1..MaxItems} :
        /\ p[2] <= Len(groups[p[1]].duplicateIndices)
        /\ groups[p[1]].duplicateIndices[p[2]] = x}

Indices == 0..(Len(items) - 1)

(* C1: at every point of a deduplication run, and so in its result, every    *)
(* group has as many similarityScores as duplicateIndices, no index is       *)
(* listed as a duplicate twice (in one group or in two), no keepIndex is     *)
(* listed as a duplicate, no two groups share a keepIndex, and the indices   *)
(* split into the processed ones, each a duplicate of exactly one group, and *)
(* the kept ones, a duplicate of none.                                       *)
C1_Partition ==
    LET groups == AllGroups
    IN  /\ \A g \in 1..Len(groups) :
              /\ Len(groups[g].duplicateIndices) = Len(groups[g].similarityScores)
              /\ groups[g].keepIndex \in Indices
              /\ PlacesOf(groups, groups[g].keepIndex) = {}
              /\ \A h \in 1..Len(groups) :
                    g # h => groups[g].keepIndex # groups[h].keepIndex
        /\ \A x \in Indices :
              /\ x \in processedIndices => Cardinality(PlacesOf(groups, x)) = 1
              /\ x \notin processedIndices => PlacesOf(groups, x) = {}
        /\ processedIndices \subseteq Indices
        /\ pc = "done" => result.duplicateGroups = groups

\* a finished run that kept the second record and removed the third one as a
\* duplicate of the first
C1_Witness ==
    /\ pc = "done"
    /\ Len(items) = 3
    /\ processedIndices = {2}
    /\ Len(result.duplicateGroups) = 1
    /\ result.duplicateGroups[1].keepIndex = 0
    /\ result.duplicateGroups[1].duplicateIndices = <<2>>

\* the pair similarity of two records of the batch, as the run computes it
Sim(x, y) == AverageSimilarity(items[x + 1], items[y + 1], fieldsToCheck)

\* A, B, C in that order: A-B and B-C reach the threshold, A-C does not
Intransitive ==
    /\ Len(items) = 3
    /\ pc = "done"
    /\ RGeq(Sim(0, 1), fuzzyThreshold)
    /\ RGeq(Sim(1, 2), fuzzyThreshold)
    /\ RLt(Sim(0, 2), fuzzyThreshold)

(* C2 as stated: for A, B, C with A-B and B-C at the threshold and A-C below *)
(* it, B is put into A's group and C is merged into A's group too.           *)
C2_AsStated ==
    Intransitive =>
        \E g \in 1..Len(result.duplicateGroups) :
            /\ result.duplicateGroups[g].keepIndex = 0
            /\ PlacesOf(result.duplicateGroups, 1) = {<<g, 1>>}
            /\ \E k \in 1..MaxItems : <<g, k>> \in PlacesOf(result.duplicateGroups, 2)

(* C2 amended: for such A, B, C the only group is A's with B as its only     *)
(* duplicate; C is compared with A alone, is a duplicate of no group, and is *)
(* kept in the output.                                                       *)
C2_GreedyKeepsC ==
    Intransitive =>
        /\ Len(result.duplicateGroups) = 1
        /\ result.duplicateGroups[1].keepIndex = 0
        /\ result.duplicateGroups[1].duplicateIndices = <<1>>
        /\ compared = {<<0, 1>>, <<0, 2>>}
        /\ result.deduplicated = <<items[1], items[3]>>
        /\ result.removedCount = 1

\* Jon Smith with email 0, Jon Smith, John Smith on name and email at 0.5:
\* the pair similarities are 1/2, 9/10 and 9/20
C2_Witness ==
    /\ Intransitive
    /\ items = <<RecJonSmithZero, RecJonSmith, RecJohnSmith>>
    /\ fuzzyThreshold = Rat(1, 2)
    /\ Sim(0, 2) = Rat(9, 20)
    /\ result.deduplicated = <<RecJonSmithZero, RecJohnSmith>>

\* the indices from k on that no group of the result lists as a duplicate
RECURSIVE KeptFrom(_)
KeptFrom(k) ==
    IF k >= Len(items) THEN <<>>
    ELSE IF PlacesOf(result.duplicateGroups, k) = {}
         THEN <<k>> \o KeptFrom(k + 1)
         ELSE KeptFrom(k + 1)

RECURSIVE TotalDuplicates(_, _)
TotalDuplicates(groups, g) ==
    IF g > Len(groups) THEN 0
    ELSE Len(groups[g].duplicateIndices) + TotalDuplicates(groups, g + 1)

\* the metadata keys the handler is asked to write into the first record
MetadataFields ==
    (IF result.outputDuplicateInfo THEN {DeduplicationInfoField} ELSE {})
        \cup (IF result.trackChanges THEN {ChangesField} ELSE {})

(* C3: the result of deduplicateFuzzy is the records at the indices that no  *)
(* group lists as a duplicate, in input order; removedCount is the total     *)
(* length of the groups' duplicateIndices; deduplicated.length +             *)
(* removedCount is the input length; every duplicate index is greater than   *)
(* its group's keepIndex.  The handler returns these records one for one,    *)
(* the first of them with the metadata keys it was asked for added.          *)
C3_Output ==
    (pc = "done") =>
        LET kept == KeptFrom(0)
            groups == result.duplicateGroups
            returned == result.returnData
        IN  /\ result.status = "ok"
            /\ result.deduplicated = [k \in 1..Len(kept) |-> items[kept[k] + 1]]
            /\ result.removedCount = TotalDuplicates(groups, 1)
            /\ Len(result.deduplicated) + result.removedCount = Len(items)
            /\ \A g \in 1..Len(groups) :
                  \A k \in 1..Len(groups[g].duplicateIndices) :
                      groups[g].duplicateIndices[k] > groups[g].keepIndex
            /\ Len(returned) = Len(kept)
            /\ \A k \in 1..Len(kept) :
                  LET record == items[kept[k] + 1]
                      json == returned[k].json
                  IN  /\ \A f \in DOMAIN record : json[f] = record[f]
                      /\ DOMAIN json =
                            DOMAIN record \cup (IF k = 1 THEN MetadataFields ELSE {})

\* a run that removed a record from the middle of the batch and kept the last,
\* with the duplicate information written into the first record returned
C3_Witness ==
    /\ pc = "done"
    /\ Len(items) = 3
    /\ result.removedCount = 1
    /\ result.deduplicated = <<items[1], items[3]>>
    /\ items[1] # items[3]
    /\ result.outputDuplicateInfo
    /\ ~result.trackChanges
    /\ result.returnData[1].json[DeduplicationInfoField].content.removedCount = 1

\* the fields of the list that count for a pair: not both values empty
CountedFields(record1, record2, fields) ==
    {k \in 1..Len(fields) :
        ~(Coerce(Lookup(record1, fields[k])) = <<>>
          /\ Coerce(Lookup(record2, fields[k])) = <<>>)}

RECURSIVE SumOver(_, _, _, _)
SumOver(record1, record2, fields, ks) ==
    IF ks = {} THEN Zero
    ELSE LET k == CHOOSE x \in ks : TRUE
         IN  RAdd(fuzzyMatch(Coerce(Lookup(record1, fields[k])),
                             Coerce(Lookup(record2, fields[k]))),
                  SumOver(record1, record2, fields, ks \ {k}))

\* the mean of fuzzyMatch over the counted fields, 0 when there is none
MeanOverCounted(record1, record2, fields) ==
    LET ks == CountedFields(record1, record2, fields)
    IN  IF ks = {} THEN Zero
        ELSE RDiv(SumOver(record1, record2, fields, ks), RInt(Cardinality(ks)))

\* the state right after the comparison of the pair lastCompare
JustCompared ==
    /\ pc = "inner"
    /\ lastCompare.i = i
    /\ lastCompare.j = j - 1

IsBlank(s) == \A k \in 1..Len(s) : s[k] \in WhiteSpace

\* the request names no field, or a threshold below 0 or above 1
BadRequest ==
    \/ \A k \in 1..Len(fieldsToCheckRaw) : IsBlank(fieldsToCheckRaw[k])
    \/ fuzzyThreshold[1] < 0
    \/ fuzzyThreshold[1] > fuzzyThreshold[2]

(* C5: a request with an empty field list or with a threshold below 0 or     *)
(* above 1 ends in a validation error: no pair of records is ever compared,  *)
(* no group is built and no output is produced.                              *)
C5_Rejected ==
    BadRequest =>
        /\ pc \in {"start", "failed"}
        /\ pc = "failed" => result.status = "error"
        /\ pc = "start" => result.status = "none"
        /\ compared = {}
        /\ duplicateGroups = <<>>
        /\ processedIndices = {}

\* a rejected request whose field list is fine and whose threshold is above 1
C5_Witness ==
    /\ pc = "failed"
    /\ fuzzyThreshold = Rat(11, 10)
    /\ ParseFields(fieldsToCheckRaw) = <<NameField>>
    /\ Len(items) >= 2
    /\ result.status = "error"

----------------------------------------------------------------------------
(* Properties of the SimilarityEngine *)

\* the full matrix of edit distances, filled row by row: cell <<x, y>>, kept at
\* place x * (Len(b) + 1) + y + 1 of the sequence, is the least number of
\* insertions, deletions and substitutions that turn the first x characters of
\* a into the first y characters of b
RECURSIVE FillMatrix(_, _, _)
FillMatrix(a, b, cells) ==
    LET width == Len(b) + 1
        x == Len(cells) \div width
        y == Len(cells) % width
        up == cells[(x - 1) * width + y + 1]
        left == cells[x * width + y]
        diag == cells[(x - 1) * width + y]
        cell == IF x = 0 THEN y
                ELSE IF y = 0 THEN x
                ELSE Min2(Min2(up + 1, left + 1),
                          diag + (IF a[x] = b[y] THEN 0 ELSE 1))
        filled == Append(cells, cell)
    IN  IF Len(cells) = (Len(a) + 1) * width
        THEN cells
        ELSE FillMatrix(a, b, filled)

EditDistance(a, b) ==
    LET matrix == FillMatrix(a, b, <<>>)
    IN  matrix[Len(matrix)]

(* C6: levenshteinDistance(a, b) is the edit distance, by the full-matrix    *)
(* definition, of the case-folded, trimmed a and b, whichever is shorter.    *)
C6_LevenshteinIsEditDistance ==
    (fn = "levenshteinDistance") =>
        ret = EditDistance(Normalize(str1), Normalize(str2))

\* the first argument is the longer one, and the distance needs a substitution
\* next to a deletion
C6_Witness ==
    /\ fn = "levenshteinDistance"
    /\ Len(Normalize(str1)) > Len(Normalize(str2))
    /\ Len(Normalize(str2)) >= 2
    /\ ret > Len(Normalize(str1)) - Len(Normalize(str2))

(* C7: levenshteinDistance(s, s) = 0, levenshteinDistance(a, b) =            *)
(* levenshteinDistance(b, a), and two strings that are equal after           *)
(* case-folding and trimming have distance 0.                                *)
C7_LevenshteinSymmetric ==
    (fn = "levenshteinDistance") =>
        /\ str1 = str2 => ret = 0
        /\ ret = levenshteinDistance(str2, str1)
        /\ (toLowerCase(trim(str1)) = toLowerCase(trim(str2))) => ret = 0

\* two different strings, equal once case-folded and trimmed
C7_Witness ==
    /\ fn = "levenshteinDistance"
    /\ str1 # str2
    /\ toLowerCase(str1) # toLowerCase(str2)
    /\ trim(str1) # trim(str2)
    /\ Normalize(str1) = Normalize(str2)
    /\ Normalize(str1) # <<>>
    /\ ret = 0

LongestCommonPrefix(s, t) ==
    CHOOSE k \in 0..Min2(Len(s), Len(t)) :
        /\ \A x \in 1..k : s[x] = t[x]
        /\ k = Min2(Len(s), Len(t)) \/ s[k + 1] # t[k + 1]

(* C9: jaroWinklerSimilarity(a, b) is the Jaro similarity plus (common       *)
(* prefix length of the normalized strings, at most 4) x min(prefixScale,    *)
(* 0.25) x (1 - jaro): at least the Jaro similarity when there is a common   *)
(* prefix, never above 1, and 0 when the Jaro similarity is 0.               *)
C9_JaroWinkler ==
    (fn = "jaroWinklerSimilarity") =>
        LET jaro == jaroSimilarity(str1, str2)
            prefix == Min2(4, LongestCommonPrefix(Normalize(str1), Normalize(str2)))
            scale == IF RLeq(prefixScale, Rat(1, 4)) THEN prefixScale ELSE Rat(1, 4)
        IN  /\ prefix > 0 => RGeq(ret, jaro)
            /\ ret = RAdd(jaro, RMul(RMul(RInt(prefix), scale), RSub(One, jaro)))
            /\ RLeq(ret, One)
            /\ RLeq(Zero, jaro) /\ RLeq(jaro, One)
            /\ jaro = Zero => ret = Zero

\* a prefix of four characters and a scale above the cap: the boost is the
\* whole distance to 1
C9_Witness ==
    /\ fn = "jaroWinklerSimilarity"
    /\ LongestCommonPrefix(Normalize(str1), Normalize(str2)) >= 4
    /\ prefixScale = Rat(1, 2)
    /\ RLt(jaroSimilarity(str1, str2), One)
    /\ ret = One

\* the function fuzzyMatch is to dispatch to
Dispatched ==
    IF Len(str1) < 10 /\ Len(str2) < 10
    THEN jaroWinklerSimilarity(str1, str2, Rat(1, 10))
    ELSE levenshteinSimilarity(str1, str2)

(* C10 as stated: fuzzyMatch is Jaro-Winkler when both strings are shorter   *)
(* than 10 characters and the Levenshtein similarity otherwise;              *)
(* fuzzyMatch(x, x) = 1 for every x, and fuzzyMatch(a, "") = 0 for every     *)
(* non-empty a.                                                              *)
C10_AsStated ==
    (fn = "fuzzyMatch") =>
        /\ ret = Dispatched
        /\ str1 = str2 => ret = One
        /\ (str1 # <<>> /\ str2 = <<>>) => ret = Zero

(* C10 amended: the dispatch and fuzzyMatch(x, x) = 1 as stated;             *)
(* fuzzyMatch(a, "") = 0 for every non-empty a except a string of fewer than *)
(* 10 characters that are all whitespace, for which it is 1.                 *)
C10_FuzzyMatch ==
    (fn = "fuzzyMatch") =>
        /\ ret = Dispatched
        /\ str1 = str2 => ret = One
        /\ (str1 # <<>> /\ str2 = <<>>) =>
              ret = (IF IsBlank(str1) /\ Len(str1) < 10 THEN One ELSE Zero)

\* a short string of whitespace against the empty string
C10_Witness ==
    /\ fn = "fuzzyMatch"
    /\ str1 # <<>>
    /\ IsBlank(str1)
    /\ Len(str1) < 10
    /\ str2 = <<>>
    /\ ret = One

----------------------------------------------------------------------------
(* Case conversion: character classes of the regular expressions *)

LowerSet == {LowerChars[k] : k \in 1..Len(LowerChars)}
UpperSet == {UpperChars[k] : k \in 1..Len(UpperChars)}
Digits == {"0", "1", "2", "3", "4", "5", "6", "7", "8", "9"}

toUpperChar(c) ==
    IF c \in LowerSet
    THEN UpperChars[CHOOSE k \in 1..Len(LowerChars) : LowerChars[k] = c]
    ELSE c

toUpperCase(s) == [k \in 1..Len(s) |-> toUpperChar(s[k])]

\* word.charAt(0).toUpperCase() + word.slice(1)
CapitalizeFirst(word) ==
    IF word = <<>> THEN <<>> ELSE <<toUpperChar(word[1])>> \o Tail(word)

\* [\s\-.] of toSnakeCase and [_\-.\s] of toCamelCase
SnakeSeparators == WhiteSpace \cup {"-", "."}
CamelSeparators == WhiteSpace \cup {"-", ".", "_"}

\* .replace(/([a-z])([A-Z])/g, '$1_$2'), scanning from place k on
RECURSIVE SplitLowerUpper(_, _)
SplitLowerUpper(s, k) ==
    IF k > Len(s) THEN <<>>
    ELSE IF k < Len(s) /\ s[k] \in LowerSet /\ s[k + 1] \in UpperSet
         THEN <<s[k], "_", s[k + 1]>> \o SplitLowerUpper(s, k + 2)
         ELSE <<s[k]>> \o SplitLowerUpper(s, k + 1)

\* the ends m of a match of ([A-Z]+) that starts at place k and is followed by
\* ([A-Z][a-z])
AcronymEnds(s, k) ==
    {m \in k..(Len(s) - 2) :
        /\ \A x \in k..m : s[x] \in UpperSet
        /\ s[m + 1] \in UpperSet
        /\ s[m + 2] \in LowerSet}

\* .replace(/([A-Z]+)([A-Z][a-z])/g, '$1_$2'): the greedy [A-Z]+ takes the
\* longest run that leaves a match of the second group
RECURSIVE SplitAcronym(_, _)
SplitAcronym(s, k) ==
    IF k > Len(s) THEN <<>>
    ELSE IF AcronymEnds(s, k) # {}
         THEN LET m == CHOOSE e \in AcronymEnds(s, k) :
                          \A other \in AcronymEnds(s, k) : other <= e
              IN  SubSeq(s, k, m) \o <<"_">> \o SubSeq(s, m + 1, m + 2)
                      \o SplitAcronym(s, m + 3)
         ELSE <<s[k]>> \o SplitAcronym(s, k + 1)

\* .replace(/[...]+/g, with): every maximal run of characters of the class
\* becomes one copy of "with"
RECURSIVE ReplaceRuns(_, _, _, _)
ReplaceRuns(s, class, with, k) ==
    IF k > Len(s) THEN <<>>
    ELSE IF s[k] \in class
         THEN IF k > 1 /\ s[k - 1] \in class
              THEN ReplaceRuns(s, class, with, k + 1)
              ELSE with \o ReplaceRuns(s, class, with, k + 1)
         ELSE <<s[k]>> \o ReplaceRuns(s, class, with, k + 1)

\* .replace(/[^a-zA-Z0-9_]/g, '')
KeepWordChars(s) ==
    SelectSeq(s, LAMBDA c : c \in LowerSet \cup UpperSet \cup Digits \cup {"_"})

\* .replace(/^_+|_+$/g, '')
RECURSIVE StripLeadingUnderscores(_)
StripLeadingUnderscores(s) ==
    IF s # <<>> /\ Head(s) = "_" THEN StripLeadingUnderscores(Tail(s)) ELSE s

RECURSIVE StripTrailingUnderscores(_)
StripTrailingUnderscores(s) ==
    IF s # <<>> /\ s[Len(s)] = "_"
    THEN StripTrailingUnderscores(SubSeq(s, 1, Len(s) - 1))
    ELSE s

\* only the leading underscores stripped
StripUnderscoresLeadingOnly(s) == StripLeadingUnderscores(s)

StripUnderscores(s) == StripTrailingUnderscores(StripLeadingUnderscores(s))

\* toSnakeCase without the last replace, which collapses the underscores
toSnakeCaseUncollapsed(str) ==
    StripUnderscores(
        toLowerCase(
            KeepWordChars(
                ReplaceRuns(SplitAcronym(SplitLowerUpper(str, 1), 1),
                            SnakeSeparators, <<"_">>, 1))))

toSnakeCase(str) ==
    IF str = <<>> THEN <<>>
    ELSE ReplaceRuns(toSnakeCaseUncollapsed(str), {"_"}, <<"_">>, 1)

\* .split(' ').filter((word) => word.length > 0): the words of s from place k
\* on, "word" being the word under construction
RECURSIVE SplitWords(_, _, _)
SplitWords(s, k, word) ==
    IF k > Len(s)
    THEN IF word = <<>> THEN <<>> ELSE <<word>>
    ELSE IF s[k] = " "
         THEN IF word = <<>>
              THEN SplitWords(s, k + 1, <<>>)
              ELSE <<word>> \o SplitWords(s, k + 1, <<>>)
         ELSE SplitWords(s, k + 1, Append(word, s[k]))

\* .join('')
RECURSIVE Join(_)
Join(words) == IF words = <<>> THEN <<>> ELSE Head(words) \o Join(Tail(words))

toCamelCase(str) ==
    IF str = <<>> THEN <<>>
    ELSE LET spaced == ReplaceRuns(str, CamelSeparators, <<" ">>, 1)
             words == SplitWords(toLowerCase(trim(spaced)), 1, <<>>)
         IN  Join([k \in 1..Len(words) |->
                      IF k = 1 THEN words[k] ELSE CapitalizeFirst(words[k])])

toPascalCase(str) ==
    LET camel == toCamelCase(str)
    IN  IF camel = <<>> THEN <<>> ELSE CapitalizeFirst(camel)

----------------------------------------------------------------------------
(* KeyTransformer: transformObjectKeys on JSON-like values *)

\* a plain object is its entries <<key, value>> in insertion order (the order
\* of Object.entries for keys that are not array indices); an array is its
\* elements
JsonObject(entries) == [type |-> "object", entries |-> entries]
JsonArray(elements) == [type |-> "array", elements |-> elements]
UndefinedValue == [type |-> "undefined", text |-> <<>>]
DateValue(iso) == [type |-> "date", text |-> iso]

\* result[newKey] = value: a key that is there keeps its place and takes the
\* new value, a new key goes to the end
SetEntry(entries, key, value) ==
    IF \E k \in 1..Len(entries) : entries[k][1] = key
    THEN [k \in 1..Len(entries) |->
             IF entries[k][1] = key THEN <<key, value>> ELSE entries[k]]
    ELSE Append(entries, <<key, value>>)

\* const transformer = caseType === 'snake_case' ? toSnakeCase : toCamelCase
Transformer(key, caseType) ==
    IF caseType = "snake_case" THEN toSnakeCase(key) ELSE toCamelCase(key)

RECURSIVE transformObjectKeys(_, _)
RECURSIVE TransformEntries(_, _, _, _)

\* the loop "for (const [key, value] of Object.entries(obj))" from entry k on,
\* "renamed" being the result object so far
TransformEntries(entries, k, renamed, caseType) ==
    IF k > Len(entries) THEN renamed
    ELSE LET updated == SetEntry(renamed, Transformer(entries[k][1], caseType),
                                 transformObjectKeys(entries[k][2], caseType))
         IN  TransformEntries(entries, k + 1, updated, caseType)

transformObjectKeys(obj, caseType) ==
    IF obj.type \in {"null", "undefined"} THEN obj
    ELSE IF obj.type = "array"
    THEN JsonArray([k \in 1..Len(obj.elements) |->
                       transformObjectKeys(obj.elements[k], caseType)])
    ELSE IF obj.type = "date" THEN obj
    ELSE IF obj.type = "object"
    THEN JsonObject(TransformEntries(obj.entries, 1, <<>>, caseType))
    ELSE obj

----------------------------------------------------------------------------
(* Case conversion: toTitleCase *)

\* const exceptions: articles, prepositions, conjunctions
exceptions ==
    { <<"a">>, <<"a", "n">>, <<"t", "h", "e">>, <<"a", "n", "d">>,
      <<"b", "u", "t">>, <<"o", "r">>, <<"f", "o", "r">>, <<"n", "o", "r">>,
      <<"s", "o">>, <<"y", "e", "t">>, <<"a", "t">>, <<"b", "y">>,
      <<"i", "n">>, <<"o", "f">>, <<"o", "n">>, <<"t", "o">>, <<"u", "p">>,
      <<"a", "s">>, <<"i", "s">>, <<"i", "t">> }

\* const uppercaseExceptions: acronyms
uppercaseExceptions ==
    { <<"u", "s", "a">>, <<"u", "k">>, <<"u", "a", "e">>, <<"n", "y", "c">>,
      <<"l", "a">>, <<"d", "c">>, <<"i", "b", "m">>, <<"n", "a", "s", "a">>,
      <<"f", "b", "i">>, <<"c", "i", "a">>, <<"c", "e", "o">>,
      <<"c", "f", "o">>, <<"c", "t", "o">>, <<"c", "o", "o">>, <<"v", "p">>,
      <<"s", "v", "p">>, <<"e", "v", "p">>, <<"m", "d">>, <<"p", "h", "d">>,
      <<"l", "l", "c">>, <<"i", "n", "c">>, <<"l", "t", "d">>, <<"i", "i">>,
      <<"i", "i", "i">>, <<"i", "v">>, <<"v", "i">>, <<"v", "i", "i">>,
      <<"v", "i", "i", "i">>, <<"i", "x">>, <<"x", "i">> }

\* .split(/(\s+)/): the text pieces and, between them, the whitespace runs;
\* the pieces at odd places are text (the first and the last may be empty),
\* those at even places whitespace; the last of "pieces" is under construction
RECURSIVE SplitKeepingWhitespace(_, _, _)
SplitKeepingWhitespace(s, k, pieces) ==
    LET inText == Len(pieces) % 2 = 1
        extended == [pieces EXCEPT ![Len(pieces)] = Append(@, s[k])]
        opened == Append(pieces, <<s[k]>>)
    IN  IF k > Len(s)
        THEN IF inText THEN pieces ELSE Append(pieces, <<>>)
        ELSE IF (s[k] \in WhiteSpace) = inText
             THEN SplitKeepingWhitespace(s, k + 1, opened)
             ELSE SplitKeepingWhitespace(s, k + 1, extended)

\* /^\s+$/.test(word)
IsWhitespaceRun(word) == word # <<>> /\ \A k \in 1..Len(word) : word[k] \in WhiteSpace

\* the callback of .map((word, index, array) => ...), index counted from 0
TitleWord(word, index, array) ==
    LET lowerWord == toLowerCase(word)
        isFirstOrLast == index = 0 \/ index = Len(array) - 1
    IN  IF IsWhitespaceRun(word) THEN word
        ELSE IF lowerWord \in uppercaseExceptions THEN toUpperCase(word)
        ELSE IF ~isFirstOrLast /\ lowerWord \in exceptions THEN lowerWord
        ELSE IF word = <<>> THEN <<>>
        ELSE <<toUpperChar(word[1])>> \o toLowerCase(Tail(word))

toTitleCase(str) ==
    IF str = <<>> THEN <<>>
    ELSE LET array == SplitKeepingWhitespace(toLowerCase(str), 1, <<<<>>>>)
         IN  Join([k \in 1..Len(array) |-> TitleWord(array[k], k - 1, array)])

----------------------------------------------------------------------------
(* Phone numbers: cleanPhoneNumber, isValidE164 *)

\* s.startsWith(prefix)
StartsWith(s, prefix) ==
    Len(s) >= Len(prefix) /\ SubSeq(s, 1, Len(prefix)) = prefix

\* the whole of s
SliceFromStart(s, n) == s

\* s.slice(n)
SliceFrom(s, n) == SubSeq(s, n + 1, Len(s))

\* s.slice(from, to)
Slice(s, from, to) == SubSeq(s, from + 1, Min2(to, Len(s)))

\* phone.replace(/\D/g, '')
DigitsOnly(phone) == SelectSeq(phone, LAMBDA c : c \in Digits)

\* phone.trim().startsWith('+')
HasPlus(phone) == StartsWith(trim(phone), <<"+">>)

\* longest phone number of E.164, in digits
MaxE164Digits == 15

\* the digits as they are
PrependNothing(digitsOnly) == digitsOnly

\* `+${digitsOnly}`
PrependPlus(digitsOnly) == <<"+">> \o digitsOnly

cleanPhoneNumber(phone, defaultCountryCode) ==
    LET hasPlus == HasPlus(phone)
        digitsOnly == DigitsOnly(phone)
        length == Len(digitsOnly)
    IN  IF phone = <<>> THEN <<>>
        ELSE IF length = 0 THEN phone
        ELSE IF length > MaxE164Digits THEN phone
        ELSE IF hasPlus THEN PrependPlus(digitsOnly)
        ELSE IF length = 11 /\ StartsWith(digitsOnly, <<"1">>)
        THEN PrependPlus(digitsOnly)
        ELSE IF length = 10 THEN <<"+">> \o defaultCountryCode \o digitsOnly
        ELSE IF length = 11 /\ StartsWith(digitsOnly, <<"0">>)
        THEN <<"+", "4", "4">> \o SliceFrom(digitsOnly, 1)
        ELSE IF length = 12 /\ StartsWith(digitsOnly, <<"4", "4">>)
        THEN PrependPlus(digitsOnly)
        ELSE IF length >= 7 /\ length <= 10
        THEN <<"+">> \o defaultCountryCode \o digitsOnly
        ELSE PrependPlus(digitsOnly)

\* /^\+[1-9]\d{1,14}$/.test(phone)
isValidE164(phone) ==
    /\ Len(phone) >= 3
    /\ Len(phone) <= 16
    /\ phone[1] = "+"
    /\ phone[2] \in Digits \ {"0"}
    /\ \A k \in 3..Len(phone) : phone[k] \in Digits

----------------------------------------------------------------------------
(* Phone numbers: parsePhoneNumber *)

\* the keyword at place p, whatever its case (the i flag)
KeywordAt(s, p, keyword) ==
    /\ p + Len(keyword) - 1 <= Len(s)
    /\ toLowerCase(SubSeq(s, p, p + Len(keyword) - 1)) = keyword

\* the first place from q on that holds no whitespace: where \s* ends
RECURSIVE SkipWhitespace(_, _)
SkipWhitespace(s, q) ==
    IF q <= Len(s) /\ s[q] \in WhiteSpace THEN SkipWhitespace(s, q + 1) ELSE q

\* the first place from q on that holds no digit: where \d+ ends
RECURSIVE SkipDigits(_, _)
SkipDigits(s, q) ==
    IF q <= Len(s) /\ s[q] \in Digits THEN SkipDigits(s, q + 1) ELSE q

\* \s*(\d+) matches from place q on
ExtensionTailAt(s, q) ==
    LET r == SkipWhitespace(s, q) IN r <= Len(s) /\ s[r] \in Digits

\* the places right after the keyword of a match of
\* (?:ext\.?|x|extension)\s*(\d+) that starts at p, in the order in which the
\* alternatives are tried
KeywordEndsAt(s, p) ==
    LET ext == <<"e", "x", "t">>
        extension == <<"e", "x", "t", "e", "n", "s", "i", "o", "n">>
        afterExtDot == IF KeywordAt(s, p, ext) /\ p + 3 <= Len(s) /\ s[p + 3] = "."
                       THEN <<p + 4>> ELSE <<>>
        afterExt == IF KeywordAt(s, p, ext) THEN <<p + 3>> ELSE <<>>
        afterX == IF KeywordAt(s, p, <<"x">>) THEN <<p + 1>> ELSE <<>>
        afterExtension == IF KeywordAt(s, p, extension) THEN <<p + 9>> ELSE <<>>
    IN  SelectSeq(afterExtDot \o afterExt \o afterX \o afterExtension,
                  LAMBDA q : ExtensionTailAt(s, q))

\* phone.match(/(?:ext\.?|x|extension)\s*(\d+)/i): the leftmost match, as
\* [from, to] the places of extMatch[0] and digits = extMatch[1]; from = 0 when
\* there is no match
ExtMatch(phone) ==
    LET starts == {p \in 1..Len(phone) : KeywordEndsAt(phone, p) # <<>>}
    IN  IF starts = {} THEN [from |-> 0, to |-> 0, digits |-> <<>>]
        ELSE LET p == CHOOSE x \in starts : \A y \in starts : x <= y
                 q == KeywordEndsAt(phone, p)[1]
                 r == SkipWhitespace(phone, q)
                 e == SkipDigits(phone, r)
             IN  [from |-> p, to |-> e - 1, digits |-> SubSeq(phone, r, e - 1)]

\* const result: ParsedPhoneNumber = {original: phone || '', e164: '', ...}
DefaultParsedPhoneNumber(phone) ==
    [original |-> phone, e164 |-> <<>>, national |-> <<>>,
     international |-> <<>>, countryCode |-> <<>>, areaCode |-> <<>>,
     localNumber |-> <<>>, extension |-> <<>>, isValid |-> FALSE]

\* every digit before the last 10
CountryCodeLengthUncapped(length) == length - 10

\* Math.min(ccLength, 3) with ccLength = digitsOnly.length - 10
CountryCodeLength(length) == Min2(length - 10, 3)

\* "Detect country code": <<countryCode, nationalNumber>>
DetectCountryCode(digitsOnly, hasPlus, defaultCountryCode) ==
    LET length == Len(digitsOnly)
        ccLength == CountryCodeLength(length)
    IN  IF hasPlus
        THEN IF StartsWith(digitsOnly, <<"1">>) /\ length = 11
             THEN <<<<"1">>, SliceFrom(digitsOnly, 1)>>
             ELSE IF StartsWith(digitsOnly, <<"4", "4">>) /\ length >= 12
             THEN <<<<"4", "4">>, SliceFrom(digitsOnly, 2)>>
             ELSE IF StartsWith(digitsOnly, <<"9", "1">>) /\ length = 12
             THEN <<<<"9", "1">>, SliceFrom(digitsOnly, 2)>>
             ELSE IF StartsWith(digitsOnly, <<"8", "6">>) /\ length = 13
             THEN <<<<"8", "6">>, SliceFrom(digitsOnly, 2)>>
             ELSE IF StartsWith(digitsOnly, <<"4", "9">>) /\ length >= 11
             THEN <<<<"4", "9">>, SliceFrom(digitsOnly, 2)>>
             ELSE IF length > 10
             THEN <<Slice(digitsOnly, 0, ccLength), SliceFrom(digitsOnly, ccLength)>>
             ELSE <<defaultCountryCode, digitsOnly>>
        ELSE IF length = 11 /\ StartsWith(digitsOnly, <<"1">>)
        THEN <<<<"1">>, SliceFrom(digitsOnly, 1)>>
        ELSE IF length = 11 /\ StartsWith(digitsOnly, <<"0">>)
        THEN <<<<"4", "4">>, SliceFrom(digitsOnly, 1)>>
        ELSE <<defaultCountryCode, digitsOnly>>

\* "National format (US style: (XXX) XXX-XXXX)"
NationalFormat(nationalNumber) ==
    IF Len(nationalNumber) = 10
    THEN <<"(">> \o Slice(nationalNumber, 0, 3) \o <<")", " ">>
             \o Slice(nationalNumber, 3, 6) \o <<"-">> \o SliceFrom(nationalNumber, 6)
    ELSE IF Len(nationalNumber) = 7
    THEN Slice(nationalNumber, 0, 3) \o <<"-">> \o SliceFrom(nationalNumber, 3)
    ELSE nationalNumber

\* "International format (+X XXX XXX XXXX)"
InternationalFormat(countryCode, nationalNumber) ==
    IF Len(nationalNumber) = 10
    THEN <<"+">> \o countryCode \o <<" ">> \o Slice(nationalNumber, 0, 3) \o <<" ">>
             \o Slice(nationalNumber, 3, 6) \o <<" ">> \o SliceFrom(nationalNumber, 6)
    ELSE <<"+">> \o countryCode \o <<" ">> \o nationalNumber

\* "Add extension to formats if present"
WithExtension(text, extension) ==
    IF extension # <<>>
    THEN text \o <<" ", "e", "x", "t", ".", " ">> \o extension
    ELSE text

\* parsePhoneNumber from "Clean phone number" on: phone is the text without the
\* extension, result the default with the extension set
ParseCleaned(phone, result0, defaultCountryCode) ==
    LET hasPlus == HasPlus(phone)
        digitsOnly == DigitsOnly(phone)
        detected == DetectCountryCode(digitsOnly, hasPlus, defaultCountryCode)
        countryCode == detected[1]
        nationalNumber == detected[2]
        e164 == <<"+">> \o countryCode \o nationalNumber
    IN  IF Len(digitsOnly) < 7 \/ Len(digitsOnly) > MaxE164Digits
        THEN result0
        ELSE [result0 EXCEPT
                 !.countryCode = countryCode,
                 !.areaCode = IF Len(nationalNumber) >= 10
                              THEN Slice(nationalNumber, 0, 3) ELSE <<>>,
                 !.localNumber = IF Len(nationalNumber) >= 10
                                 THEN SliceFrom(nationalNumber, 3)
                                 ELSE IF Len(nationalNumber) >= 7
                                 THEN nationalNumber ELSE <<>>,
                 !.e164 = e164,
                 !.national = WithExtension(NationalFormat(nationalNumber),
                                            result0.extension),
                 !.international =
                     WithExtension(InternationalFormat(countryCode, nationalNumber),
                                   result0.extension),
                 !.isValid = isValidE164(e164)]

parsePhoneNumber(phone, defaultCountryCode) ==
    LET extMatch == ExtMatch(phone)
        withoutExtension ==
            trim(SubSeq(phone, 1, extMatch.from - 1) \o SliceFrom(phone, extMatch.to))
    IN  IF phone = <<>> THEN DefaultParsedPhoneNumber(phone)
        ELSE IF extMatch.from > 0
        THEN ParseCleaned(withoutExtension,
                          [DefaultParsedPhoneNumber(phone) EXCEPT
                              !.extension = extMatch.digits],
                          defaultCountryCode)
        ELSE ParseCleaned(phone, DefaultParsedPhoneNumber(phone), defaultCountryCode)

----------------------------------------------------------------------------
(* SpecKeys: transformObjectKeys applied to a value, and again to its result *)

KeyFirstName == <<"f", "i", "r", "s", "t", "N", "a", "m", "e">>
KeyFirstNameSnake == <<"f", "i", "r", "s", "t", "_", "n", "a", "m", "e">>
KeyPhoneNumber == <<"P", "h", "o", "n", "e", " ", "N", "u", "m", "b", "e", "r">>
KeyId == <<"i", "d">>

KeyPool == {KeyFirstName, KeyFirstNameSnake, KeyPhoneNumber, KeyId}

\* { "phoneNumber": "Jon Smith" }
NestedObject ==
    JsonObject(<< << <<"p", "h", "o", "n", "e", "N", "u", "m", "b", "e", "r">>,
                     StringValue(JonSmith) >> >>)

\* [ { "first_name": "John Smith", "id": null }, "Jane Doe", { "firstName": [] } ]
NestedArray ==
    JsonArray(<< JsonObject(<< <<KeyFirstNameSnake, StringValue(JohnSmith)>>,
                               <<KeyId, NullValue>> >>),
                 StringValue(JaneDoe),
                 JsonObject(<< <<KeyFirstName, JsonArray(<<>>)>> >>) >>)

\* the values an entry of the input object holds
EntryValues ==
    {StringValue(JohnSmith), NullValue, NestedObject, NestedArray,
     DateValue(<<"2", "0", "2", "4">>)}

\* the entry lists of at most n entries with distinct keys
RECURSIVE EntriesUpTo(_)
EntriesUpTo(n) ==
    IF n = 0 THEN {<<>>}
    ELSE LET shorter == EntriesUpTo(n - 1)
             longer == {Append(e, <<key, value>>) :
                           e \in {t \in shorter : Len(t) = n - 1},
                           key \in KeyPool, value \in EntryValues}
         IN  shorter \cup
             {e \in longer : \A k \in 1..(n - 1) : e[k][1] # e[n][1]}

JsonInputs ==
    EntryValues \cup {UndefinedValue}
        \cup {JsonObject(e) : e \in EntriesUpTo(MaxEntries)}

InitKeys ==
    /\ inputJson \in JsonInputs
    /\ keyFormat \in {"snake_case", "camelCase"}
    /\ transformedJson = UndefinedValue
    /\ SimIdle
    /\ DedupIdle

\* transformedJson = transformObjectKeys(json, keyFormat)
TransformObjectKeysCall ==
    /\ fn = "none"
    /\ fn' = "transformObjectKeys"
    /\ transformedJson' = transformObjectKeys(inputJson, keyFormat)
    /\ UNCHANGED <<inputJson, keyFormat, str1, str2, prefixScale, ret, dedupVars>>

\* the same operation run on the output of the first run
TransformObjectKeysAgain ==
    /\ fn = "transformObjectKeys"
    /\ fn' = "transformObjectKeysAgain"
    /\ inputJson' = transformedJson
    /\ transformedJson' = transformObjectKeys(transformedJson, keyFormat)
    /\ UNCHANGED <<keyFormat, str1, str2, prefixScale, ret, dedupVars>>

NextKeys ==
    \/ TransformObjectKeysCall
    \/ TransformObjectKeysAgain

SpecKeys == InitKeys /\ [][NextKeys]_vars

(* C11: for each case format, transformObjectKeys applied to its own result  *)
(* returns that result unchanged.                                            *)
C11_Idempotent ==
    (fn = "transformObjectKeysAgain") => transformedJson = inputJson


----------------------------------------------------------------------------
(* SpecCase: one call of a case conversion on a string *)

CaseAlphabet == {"a", "B", "1", "_", "-", " ", "$"}

PascalFirstName == <<"F", "i", "r", "s", "t", "N", "a", "m", "e">>
XmlHttpRequest ==
    <<"X", "M", "L", "H", "t", "t", "p", "R", "e", "q", "u", "e", "s", "t">>
DottedName == <<"u", "s", "e", "r", ".", "f", "i", "r", "s", "t", "-", "N", "a", "m", "e">>

CaseExtras ==
    {KeyFirstName, KeyFirstNameSnake, KeyPhoneNumber, PascalFirstName,
     XmlHttpRequest, DottedName}

\* the words of the texts handed to toTitleCase: a minor word, an acronym, a
\* name in mixed case, another minor word
TitleWords ==
    {<<"t", "h", "e">>, <<"U", "s", "a">>, <<"j", "O", "h", "N">>, <<"o", "f">>}

\* the texts of exactly n words with one space between them
RECURSIVE TextsOf(_)
TextsOf(n) ==
    IF n = 1 THEN TitleWords
    ELSE {t \o <<" ">> \o w : t \in TextsOf(n - 1), w \in TitleWords}

Margins == {<<>>, <<" ">>, <<" ", " ">>}

\* texts of 1 to MaxWords words, with and without whitespace around them
TitleTexts ==
    {lead \o t \o trail :
        lead \in Margins, trail \in Margins,
        t \in UNION {TextsOf(n) : n \in 1..MaxWords}}

CaseStrings == SeqsUpTo(CaseAlphabet, MaxCaseLen) \cup CaseExtras \cup TitleTexts

InitCase ==
    /\ fn = "none"
    /\ str1 \in CaseStrings
    /\ str2 = <<>>
    /\ prefixScale = DefaultPrefixScale
    /\ ret = Zero
    /\ DedupIdle
    /\ KeysIdle

ToSnakeCaseCall ==
    /\ fn = "none"
    /\ fn' = "toSnakeCase"
    /\ ret' = toSnakeCase(str1)
    /\ UNCHANGED <<str1, str2, prefixScale, dedupVars, keyVars>>

ToCamelCaseCall ==
    /\ fn = "none"
    /\ fn' = "toCamelCase"
    /\ ret' = toCamelCase(str1)
    /\ UNCHANGED <<str1, str2, prefixScale, dedupVars, keyVars>>

ToPascalCaseCall ==
    /\ fn = "none"
    /\ fn' = "toPascalCase"
    /\ ret' = toPascalCase(str1)
    /\ UNCHANGED <<str1, str2, prefixScale, dedupVars, keyVars>>

ToTitleCaseCall ==
    /\ fn = "none"
    /\ fn' = "toTitleCase"
    /\ ret' = toTitleCase(str1)
    /\ UNCHANGED <<str1, str2, prefixScale, dedupVars, keyVars>>

NextCase ==
    \/ ToSnakeCaseCall
    \/ ToCamelCaseCall
    \/ ToPascalCaseCall
    \/ ToTitleCaseCall

SpecCase == InitCase /\ [][NextCase]_vars

(* C12: toSnakeCase applied to its own result returns it unchanged; the      *)
(* result holds only lowercase letters, digits and underscores, no two       *)
(* underscores in a row and none at either end; toSnakeCase("firstName") is  *)
(* "first_name".                                                             *)
C12_SnakeCase ==
    (fn = "toSnakeCase") =>
        /\ toSnakeCase(ret) = ret
        /\ \A k \in 1..Len(ret) : ret[k] \in LowerSet \cup Digits \cup {"_"}
        /\ \A k \in 1..(Len(ret) - 1) : ~(ret[k] = "_" /\ ret[k + 1] = "_")
        /\ ret # <<>> => (ret[1] # "_" /\ ret[Len(ret)] # "_")
        /\ str1 = KeyFirstName => ret = KeyFirstNameSnake

\* an input with an underscore at the end, a case boundary and a character
\* that is dropped
C12_Witness ==
    /\ fn = "toSnakeCase"
    /\ str1 # <<>>
    /\ str1[Len(str1)] \in {"_", "-", " "}
    /\ \E k \in 1..(Len(str1) - 1) : str1[k] = "a" /\ str1[k + 1] = "B"
    /\ ret = <<"a", "_", "b">>

\* the tokens of s: s cut at every lower-to-upper transition, between an
\* uppercase run and a following upper+lower, and at the separators
CaseTokens(s) ==
    SplitWords(
        ReplaceRuns(SplitAcronym(SplitLowerUpper(s, 1), 1),
                    CamelSeparators, <<" ">>, 1),
        1, <<>>)

\* the first token in lowercase, every later token with a capital initial
CamelOfTokens(tokens) ==
    Join([k \in 1..Len(tokens) |->
             IF k = 1 THEN toLowerCase(tokens[k])
             ELSE CapitalizeFirst(toLowerCase(tokens[k]))])

PascalOfTokens(tokens) ==
    IF tokens = <<>> THEN <<>> ELSE CapitalizeFirst(CamelOfTokens(tokens))

(* C13: toCamelCase and toPascalCase cut their input at case boundaries as   *)
(* well as at the separators: toCamelCase returns the first token in         *)
(* lowercase followed by the later tokens with a capital initial, and        *)
(* toPascalCase that result with its first character in uppercase.           *)
C13_CaseBoundaries ==
    /\ (fn = "toCamelCase") => ret = CamelOfTokens(CaseTokens(str1))
    /\ (fn = "toPascalCase") => ret = PascalOfTokens(CaseTokens(str1))

\* "out" is "in" with its keys renamed and nothing else changed: a leaf is
\* itself, an array has the same elements in the same order, and every entry
\* of an object is found under its transformed key
RECURSIVE Renamed(_, _, _)
Renamed(in, out, format) ==
    IF in.type = "array"
    THEN /\ out.type = "array"
         /\ Len(out.elements) = Len(in.elements)
         /\ \A k \in 1..Len(in.elements) :
                Renamed(in.elements[k], out.elements[k], format)
    ELSE IF in.type = "object"
    THEN /\ out.type = "object"
         /\ \A k \in 1..Len(in.entries) :
                \E m \in 1..Len(out.entries) :
                    /\ out.entries[m][1] = Transformer(in.entries[k][1], format)
                    /\ Renamed(in.entries[k][2], out.entries[m][2], format)
    ELSE out = in

(* C14: transformObjectKeys renames keys only: at every nesting level every  *)
(* value of the input is in the output under its transformed key, arrays     *)
(* keep their order and leaves, null and undefined are returned as they are. *)
C14_KeysOnly ==
    (fn = "transformObjectKeys") =>
        Renamed(inputJson, transformedJson, keyFormat)

\* the token of s around place k (a maximal run without whitespace), as the
\* pair of its first and last place
TokenAround(s, k) ==
    LET first == CHOOSE a \in 1..k :
                     /\ \A x \in a..k : s[x] \notin WhiteSpace
                     /\ a = 1 \/ s[a - 1] \in WhiteSpace
        last == CHOOSE b \in k..Len(s) :
                     /\ \A x \in k..b : s[x] \notin WhiteSpace
                     /\ b = Len(s) \/ s[b + 1] \in WhiteSpace
    IN  <<first, last>>

\* the character of the title-cased text at place k of the case-folded text s
TitleCharAt(s, k) ==
    IF s[k] \in WhiteSpace THEN s[k]
    ELSE LET span == TokenAround(s, k)
             token == SubSeq(s, span[1], span[2])
             isFirst == \A x \in 1..(span[1] - 1) : s[x] \in WhiteSpace
             isLast == \A x \in (span[2] + 1)..Len(s) : s[x] \in WhiteSpace
         IN  IF token \in uppercaseExceptions THEN toUpperChar(s[k])
             ELSE IF token \in exceptions /\ ~isFirst /\ ~isLast THEN s[k]
             ELSE IF k = span[1] THEN toUpperChar(s[k])
             ELSE s[k]

\* the text in title case, token by token
TitleCased(str) ==
    LET s == toLowerCase(str) IN [k \in 1..Len(s) |-> TitleCharAt(s, k)]

(* C15: toTitleCase case-folds the text and then writes every token (a run   *)
(* without whitespace) in uppercase if it is an acronym, else in lowercase   *)
(* if it is a minor word and neither the first nor the last token of the     *)
(* text, else with a capital first letter; the whitespace is kept as it is,  *)
(* also at the start and the end of the text.                                *)
C15_TitleCase ==
    (fn = "toTitleCase") => ret = TitleCased(str1)

----------------------------------------------------------------------------
(* SpecPhone: one call of cleanPhoneNumber or parsePhoneNumber *)

\* what stands before the digits: nothing, a plus sign, a plus sign after
\* whitespace, an opening bracket
PhonePrefixes == {<<>>, <<"+">>, <<" ", "+">>, <<"(">>}

\* the first digits of a number: the recognized country codes, a trunk 0 and
\* digits that are no recognized prefix
PhoneLeads ==
    {<<>>, <<"1">>, <<"0">>, <<"4", "4">>, <<"9", "1">>, <<"8", "6">>,
     <<"4", "9">>, <<"5">>}

\* what follows the digits: nothing or an extension
PhoneSuffixes ==
    {<<>>, <<" ", "x", "4", "5">>, <<" ", "e", "x", "t", ".", " ", "9">>,
     <<"E", "x", "t", "e", "n", "s", "i", "o", "n", "7">>}

\* the digit that fills place k of a number
FillDigit(k) ==
    <<"2", "3", "4", "5", "6", "7", "8", "9", "0", "1">>[((k - 1) % 10) + 1]

\* the number of n digits that begins with lead
DigitsFrom(lead, n) ==
    [k \in 1..n |-> IF k <= Len(lead) THEN lead[k] ELSE FillDigit(k)]

\* "(555) 000-1111" and "07946095800"
FormattedUsNumber ==
    <<"(", "5", "5", "5", ")", " ", "0", "0", "0", "-", "1", "1", "1", "1">>
UkNationalNumber == <<"0", "7", "9", "4", "6", "0", "9", "5", "8", "0", "0">>

PhoneInputs ==
    {prefix \o DigitsFrom(lead, n) \o suffix :
        prefix \in PhonePrefixes, suffix \in PhoneSuffixes,
        lead \in PhoneLeads, n \in 0..MaxPhoneDigits}
    \cup {FormattedUsNumber, UkNationalNumber}

CountryCodes == {<<"1">>, <<"4", "4">>}

InitPhone ==
    /\ fn = "none"
    /\ str1 \in PhoneInputs
    /\ str2 \in CountryCodes
    /\ prefixScale = DefaultPrefixScale
    /\ ret = Zero
    /\ DedupIdle
    /\ KeysIdle

CleanPhoneNumberCall ==
    /\ fn = "none"
    /\ fn' = "cleanPhoneNumber"
    /\ ret' = cleanPhoneNumber(str1, str2)
    /\ UNCHANGED <<str1, str2, prefixScale, dedupVars, keyVars>>

ParsePhoneNumberCall ==
    /\ fn = "none"
    /\ fn' = "parsePhoneNumber"
    /\ ret' = parsePhoneNumber(str1, str2)
    /\ UNCHANGED <<str1, str2, prefixScale, dedupVars, keyVars>>

NextPhone ==
    \/ CleanPhoneNumberCall
    \/ ParsePhoneNumberCall

SpecPhone == InitPhone /\ [][NextPhone]_vars

\* the rules of cleanPhoneNumber in their order, for the digits of "phone":
\* "out" is what the first rule that applies gives
FollowsRules(phone, countryCode, out) ==
    LET digits == DigitsOnly(phone)
        count == Len(digits)
        plus == HasPlus(phone)
    IN  /\ plus => out = <<"+">> \o digits
        /\ (~plus /\ count = 11 /\ digits[1] = "1") => out = <<"+">> \o digits
        /\ (~plus /\ count = 10) => out = <<"+">> \o countryCode \o digits
        /\ (~plus /\ count = 11 /\ digits[1] = "0") =>
               out = <<"+", "4", "4">> \o Tail(digits)
        /\ (~plus /\ count = 12 /\ SubSeq(digits, 1, 2) = <<"4", "4">>) =>
               out = <<"+">> \o digits
        /\ (~plus /\ count \in 7..9) => out = <<"+">> \o countryCode \o digits

\* cleanPhoneNumber("(555) 000-1111", "1") and cleanPhoneNumber("07946095800", "44")
ExamplesHold ==
    /\ (str1 = FormattedUsNumber /\ str2 = <<"1">>) =>
           ret = <<"+", "1", "5", "5", "5", "0", "0", "0", "1", "1", "1", "1">>
    /\ (str1 = UkNationalNumber /\ str2 = <<"4", "4">>) =>
           ret = <<"+", "4", "4", "7", "9", "4", "6", "0", "9", "5", "8", "0", "0">>

(* C16 as stated: whatever the number of digits, cleanPhoneNumber returns    *)
(* what the first applicable rule of the list gives, the rule of the leading *)
(* '+' being the first.                                                      *)
C16_AsStated ==
    (fn = "cleanPhoneNumber") => (FollowsRules(str1, str2, ret) /\ ExamplesHold)

(* C16: for an input of 1 to 15 digits cleanPhoneNumber returns what the     *)
(* first applicable rule gives: leading '+' -> '+'digits; 11 digits from 1   *)
(* -> '+'digits; 10 digits -> '+'default code, digits; 11 digits from 0 ->   *)
(* '+44' and the digits after the 0; 12 digits from 44 -> '+'digits; 7 to 10 *)
(* digits -> '+'default code, digits. The two examples hold.                 *)
C16_Rules ==
    (fn = "cleanPhoneNumber" /\ Len(DigitsOnly(str1)) \in 1..MaxE164Digits) =>
        (FollowsRules(str1, str2, ret) /\ ExamplesHold)

\* the UK number of the example, rewritten by the rule of the leading 0
C16_Witness ==
    /\ fn = "cleanPhoneNumber"
    /\ str1 = UkNationalNumber
    /\ str2 = <<"4", "4">>
    /\ ret = <<"+", "4", "4", "7", "9", "4", "6", "0", "9", "5", "8", "0", "0">>

\* phone matches none of the patterns of cleanPhoneNumber: no leading '+', not
\* 11 digits from 1 or 0, not 12 digits from 44, not 7 to 10 digits
MatchesNoPattern(phone) ==
    LET digits == DigitsOnly(phone)
        count == Len(digits)
    IN  /\ ~HasPlus(phone)
        /\ ~(count = 11 /\ digits[1] \in {"1", "0"})
        /\ ~(count = 12 /\ SubSeq(digits, 1, 2) = <<"4", "4">>)
        /\ count \notin 7..10

C18_ValidOrUnchanged ==
    (fn = "cleanPhoneNumber") => (isValidE164(ret) \/ ret = str1)

\* the nine fields of a ParsedPhoneNumber
ParsedPhoneNumberFields ==
    {"original", "e164", "national", "international", "countryCode",
     "areaCode", "localNumber", "extension", "isValid"}

\* the digits of phone once the extension is removed
DigitsWithoutExtension(phone) ==
    LET extMatch == ExtMatch(phone)
    IN  IF extMatch.from = 0 THEN DigitsOnly(phone)
        ELSE DigitsOnly(SubSeq(phone, 1, extMatch.from - 1)
                            \o SubSeq(phone, extMatch.to + 1, Len(phone)))

(* C19: the result of parsePhoneNumber has all nine fields, isValid is true  *)
(* exactly when e164 is a valid E.164 number, and for an input of fewer than *)
(* 7 or more than 15 digits (the extension removed) e164, national,          *)
(* international, countryCode, areaCode, localNumber and extension are empty *)
(* and isValid is false.                                                     *)
C19_Populated ==
    (fn = "parsePhoneNumber") =>
        /\ DOMAIN ret = ParsedPhoneNumberFields
        /\ ret.isValid = isValidE164(ret.e164)
        /\ Len(DigitsWithoutExtension(str1)) \notin 7..MaxE164Digits =>
               /\ \A field \in ParsedPhoneNumberFields \ {"original", "isValid"} :
                      ret[field] = <<>>
               /\ ret.isValid = FALSE

\* the digits begin with a recognized prefix of the right length: with a '+',
\* 1 (11 digits), 44 (12 or more), 91 (12), 86 (13), 49 (11 or more); without,
\* 1 or the trunk 0 (11 digits)
RecognizedPrefix(digits, plus) ==
    LET count == Len(digits)
        from(prefix) == SubSeq(digits, 1, Len(prefix)) = prefix
    IN  IF plus
        THEN \/ from(<<"1">>) /\ count = 11
             \/ from(<<"4", "4">>) /\ count >= 12
             \/ from(<<"9", "1">>) /\ count = 12
             \/ from(<<"8", "6">>) /\ count = 13
             \/ from(<<"4", "9">>) /\ count >= 11
        ELSE count = 11 /\ (from(<<"1">>) \/ from(<<"0">>))

\* the national number of a parsed phone number: e164 without '+' and the
\* country code
NationalNumberOf(parsed) ==
    SubSeq(parsed.e164, Len(parsed.countryCode) + 2, Len(parsed.e164))

\* parsePhoneNumber went past its digit-count check with more than 10 digits
\* and no recognized prefix
FallsBack ==
    /\ fn = "parsePhoneNumber"
    /\ Len(DigitsWithoutExtension(str1)) \in 11..MaxE164Digits
    /\ ~RecognizedPrefix(DigitsWithoutExtension(str1), HasPlus(str1))

(* C20 as stated: with more than 10 digits and no recognized prefix the      *)
(* national number is the last 10 digits and the country code every digit    *)
(* before them.                                                              *)
C20_AsStated ==
    FallsBack =>
        LET digits == DigitsWithoutExtension(str1)
            count == Len(digits)
        IN  /\ ret.countryCode = SubSeq(digits, 1, count - 10)
            /\ NationalNumberOf(ret) = SubSeq(digits, count - 9, count)

(* C20: with a leading '+', more than 10 digits and no recognized prefix the *)
(* country code is the first digits up to the last 10, at most 3 of them,    *)
(* and the national number the digits after it: the last 10 digits for 11 to *)
(* 13 digits. Without a leading '+' the country code is the default and the  *)
(* national number every digit.                                              *)
C20_Fallback ==
    FallsBack =>
        LET digits == DigitsWithoutExtension(str1)
            count == Len(digits)
            taken == IF count - 10 > 3 THEN 3 ELSE count - 10
        IN  IF HasPlus(str1)
            THEN /\ ret.countryCode = SubSeq(digits, 1, taken)
                 /\ NationalNumberOf(ret) = SubSeq(digits, taken + 1, count)
                 /\ count <= 13 =>
                        NationalNumberOf(ret) = SubSeq(digits, count - 9, count)
            ELSE /\ ret.countryCode = str2
                 /\ NationalNumberOf(ret) = digits

\* a number of 14 digits after a '+': three digits of country code, eleven of
\* national number
C20_Witness ==
    /\ FallsBack
    /\ HasPlus(str1)
    /\ Len(DigitsWithoutExtension(str1)) = 14
    /\ Len(ret.countryCode) = 3
    /\ Len(NationalNumberOf(ret)) = 11

----------------------------------------------------------------------------
(* C28: fuzzyMatch gives the same score whichever of the two strings comes   *)
(* first.                                                                    *)
C28_Symmetric ==
    (fn = "fuzzyMatch") => ret = fuzzyMatch(str2, str1)

\* two different strings of different lengths, both short enough for the Jaro
\* branch, that match in part
C28_Witness ==
    /\ fn = "fuzzyMatch"
    /\ Len(Normalize(str1)) > Len(Normalize(str2))
    /\ Len(Normalize(str2)) >= 3
    /\ Len(str1) < ShortLimit
    /\ ret # Zero
    /\ ret # One

(* C30: for an input without an extension and with 7 to 15 digits, the e164  *)
(* of parsePhoneNumber is what cleanPhoneNumber returns for the same input   *)
(* and default country code.                                                 *)
C30_ParserAgrees ==
    (/\ fn = "parsePhoneNumber"
     /\ ExtMatch(str1).from = 0
     /\ Len(DigitsOnly(str1)) \in 7..MaxE164Digits) =>
        ret.e164 = cleanPhoneNumber(str1, str2)

----------------------------------------------------------------------------
(* SpecAgain: a deduplication run, and a second run on what the first kept *)

\* deduplicateFuzzy(deduplicated, fieldsToCheck, threshold): the search starts
\* again on the records the first run kept, with the same fields and threshold;
\* "result" holds the first run's result until the second run ends
DeduplicateAgain ==
    /\ pc = "done"
    /\ fn = "none"
    /\ fn' = "deduplicateAgain"
    /\ items' = result.deduplicated
    /\ i' = 0
    /\ j' = 0
    /\ processedIndices' = {}
    /\ currentGroup' = NoGroup
    /\ duplicateGroups' = <<>>
    /\ compared' = {}
    /\ lastCompare' = NoCompare
    /\ pc' = "outer"
    /\ UNCHANGED <<fieldsToCheckRaw, fuzzyThreshold, fieldsToCheck, result, str1,
                   str2, prefixScale, ret, keyVars>>

NextAgain ==
    \/ Validate
    \/ OuterSkip
    \/ OuterOpen
    \/ InnerSkip
    \/ InnerCompare
    \/ InnerDone
    \/ Finish
    \/ DeduplicateAgain

SpecAgain == Init /\ [][NextAgain]_vars

(* C27: a second run of deduplicateFuzzy on the records the first run kept,  *)
(* with the same fields and threshold, finds no duplicate group and removes  *)
(* nothing.                                                                  *)
C27_Idempotent ==
    (fn = "deduplicateAgain") =>
        /\ duplicateGroups = <<>>
        /\ processedIndices = {}
        /\ pc = "done" =>
               /\ result.removedCount = 0
               /\ result.duplicateGroups = <<>>
               /\ result.deduplicated = items

\* the second search is over, on two or more records that the first run kept
\* after it had removed a duplicate
C27_Witness ==
    /\ fn = "deduplicateAgain"
    /\ pc = "outer"
    /\ i >= Len(items)
    /\ Len(items) >= 2
    /\ compared # {}
    /\ result.removedCount > 0

----------------------------------------------------------------------------
(* SpecInPlace: the deduplication run of the handler that passes the items'  *)
(* json objects themselves to deduplicateFuzzy                               *)

\* the end of that executeDeduplicateFuzzy: records are the json objects of the
\* input items, not copies, so returnData[0].json is the json of the first
\* input item that was kept and the assignment of _deduplicationInfo writes
\* into that input item
FinishInPlace ==
    /\ pc = "outer"
    /\ i >= Len(items)
    /\ \E outputDuplicateInfo \in BOOLEAN :
          LET indicesToRemove == IndicesToRemove(duplicateGroups)
              deduplicated == FilterKept(items, indicesToRemove, 0)
              removedCount == Cardinality(indicesToRemove)
              keptIndices == {k \in 0..(Len(items) - 1) : k \notin indicesToRemove}
              firstKept == CHOOSE k \in keptIndices : \A other \in keptIndices : k <= other
              info == ObjectValue([originalCount |-> Len(items),
                                   deduplicatedCount |-> Len(deduplicated),
                                   removedCount |-> removedCount,
                                   duplicateGroupsFound |-> Len(duplicateGroups),
                                   fieldsChecked |-> fieldsToCheck,
                                   thresholdUsed |-> fuzzyThreshold])
              written == outputDuplicateInfo /\ Len(deduplicated) > 0
              itemsAfter == IF written
                            THEN [items EXCEPT ![firstKept + 1] =
                                     SetField(@, DeduplicationInfoField, info)]
                            ELSE items
          IN  /\ items' = itemsAfter
              /\ result' = [status |-> "ok",
                            deduplicated |-> deduplicated,
                            removedCount |-> removedCount,
                            duplicateGroups |-> duplicateGroups,
                            outputDuplicateInfo |-> outputDuplicateInfo,
                            returnData |->
                                [k \in 1..Len(deduplicated) |->
                                    [json |-> itemsAfter[
                                        CHOOSE m \in 1..Len(items) :
                                            /\ (m - 1) \in keptIndices
                                            /\ Cardinality({x \in keptIndices : x < m - 1}) = k - 1]]]]
    /\ pc' = "done"
    /\ UNCHANGED <<fieldsToCheckRaw, fuzzyThreshold, fieldsToCheck, i, j,
                   processedIndices, currentGroup, duplicateGroups, compared,
                   lastCompare, simVars, keyVars>>

NextInPlace ==
    \/ Validate
    \/ OuterSkip
    \/ OuterOpen
    \/ InnerSkip
    \/ InnerCompare
    \/ InnerDone
    \/ FinishInPlace

SpecInPlace == Init /\ [][NextInPlace]_vars

(* C23: no step of an operation changes an input item's json: the items the  *)
(* caller handed in are, at every depth, what they were before the call.     *)
C23_InputsUntouched == [][items' = items]_vars

----------------------------------------------------------------------------
(* Format Text: formatText, toSentenceCase, executeFormatText *)

MaxTextLen == 2

LineBreaks == {"\n", "\r"}
WordChars == LowerSet \cup UpperSet \cup Digits \cup {"_"}
SentenceEnds == {".", "!", "?"}
Punctuation ==
    {".", ",", "!", "?", ";", ":", "'", "\"", "(", ")", "[", "]", "{", "}"}

\* s.slice(0, end) of JavaScript: a negative end counts from the end of s
SliceTo(s, end) ==
    SubSeq(s, 1, IF end < 0 THEN Max2(Len(s) + end, 0) ELSE Min2(end, Len(s)))

\* the place of the last character before place k that is not white space,
\* 0 when there is none
RECURSIVE LastBeforeSpace(_, _)
LastBeforeSpace(s, k) ==
    IF k <= 1 THEN 0
    ELSE IF s[k - 1] \in WhiteSpace \cup {"\r"} THEN LastBeforeSpace(s, k - 1)
    ELSE k - 1

\* .replace(/(^\s*\w|[.!?]\s+\w)/g, match => match.toUpperCase()) on the
\* lowercased text: the word character at place k is in a match when only
\* white space precedes it, or white space and before that one of . ! ?
toSentenceCase(text) ==
    LET lower == toLowerCase(text)
    IN  [k \in 1..Len(lower) |->
            IF lower[k] \in WordChars
            THEN LET p == LastBeforeSpace(lower, k)
                 IN  IF p = 0 \/ (p < k - 1 /\ lower[p] \in SentenceEnds)
                     THEN toUpperChar(lower[k])
                     ELSE lower[k]
            ELSE lower[k]]

\* the switch on a case type, in formatText (lower, upper, title, sentence)
\* and, with three more cases, in executeFormatText
ApplyCase(text, caseType) ==
    CASE caseType = "lower" -> toLowerCase(text)
      [] caseType = "upper" -> toUpperCase(text)
      [] caseType = "title" -> toTitleCase(text)
      [] caseType = "sentence" -> toSentenceCase(text)
      [] caseType = "snake" -> toSnakeCase(text)
      [] caseType = "camel" -> toCamelCase(text)
      [] caseType = "pascal" -> toPascalCase(text)
      [] OTHER -> text

\* the last step of formatText; maxLength 0 stands for an absent maxLength
Truncate(text, maxLength, indicator) ==
    IF maxLength # 0 /\ Len(text) > maxLength
    THEN SliceTo(text, maxLength - Len(indicator)) \o indicator
    ELSE text

\* the steps of formatText before the case conversion
Stripped(text, options) ==
    LET unbroken == IF options.removeLineBreaks
                    THEN ReplaceRuns(text, LineBreaks, <<" ">>, 1)
                    ELSE text
        trimmed == IF options.trimWhitespace
                   THEN trim(ReplaceRuns(unbroken, WhiteSpace \cup {"\r"}, <<" ">>, 1))
                   ELSE unbroken
        plain == IF options.removeSpecialChars
                 THEN SelectSeq(trimmed, LAMBDA c :
                          c \in LowerSet \cup UpperSet \cup Digits
                                  \cup WhiteSpace \cup {"\r"})
                 ELSE trimmed
        numberless == IF options.removeNumbers
                      THEN SelectSeq(plain, LAMBDA c : c \notin Digits)
                      ELSE plain
    IN  IF options.removePunctuation
        THEN SelectSeq(numberless, LAMBDA c : c \notin Punctuation)
        ELSE numberless

formatText(text, options) ==
    IF text = <<>> THEN <<>>
    ELSE Truncate(ApplyCase(Stripped(text, options), options.caseType),
                  options.maxLength, options.truncationIndicator)

----------------------------------------------------------------------------
(* SpecFormat: the Format Text operation on one item whose text field holds  *)
(* the string str1                                                           *)

FormatAlphabet == {"a", "B", " ", ".", "1", "\n"}
FormatTexts ==
    UNION {[1..n -> FormatAlphabet] : n \in 0..MaxTextLen}
        \cup {<<"h", "e", "l", "l", "o", "W", "o", "r", "l", "d">>,
              <<"H", "i", ".", " ", " ", "a", "1", "\n", "b", "!">>}
FormatCaseTypes ==
    {"none", "lower", "upper", "title", "sentence", "snake", "camel", "pascal"}
TruncationIndicators == {<<>>, <<"~">>, <<".", ".", ".">>}

InitFormat ==
    /\ fn = "none"
    /\ str1 \in FormatTexts
    /\ str2 = <<>>
    /\ prefixScale = DefaultPrefixScale
    /\ ret = Zero
    /\ DedupIdle
    /\ KeysIdle

\* one turn of the loop of executeFormatText on a string value: formatText
\* without a case type, then the case conversion, then the write to the target
\* field; ret is what the turn wrote and the parameters it read
ExecuteFormatText ==
    /\ fn = "none"
    /\ fn' = "executeFormatText"
    /\ \E caseType \in FormatCaseTypes, maxLength \in 0..MaxTextLen,
          truncationIndicator \in TruncationIndicators,
          trimWhitespace \in BOOLEAN, removeLineBreaks \in BOOLEAN,
          removeSpecialChars \in BOOLEAN, removeNumbers \in BOOLEAN,
          removePunctuation \in BOOLEAN, skipUnchanged \in BOOLEAN :
          \E formatted \in {formatText(str1,
                 [trimWhitespace |-> trimWhitespace,
                  removeLineBreaks |-> removeLineBreaks,
                  caseType |-> "none",
                  removeSpecialChars |-> removeSpecialChars,
                  removeNumbers |-> removeNumbers,
                  removePunctuation |-> removePunctuation,
                  maxLength |-> maxLength,
                  truncationIndicator |-> truncationIndicator])} :
             \E written \in {ApplyCase(formatted, caseType)} :
                ret' = [text |-> written,
                        changed |-> written # str1,
                        returned |-> ~(skipUnchanged /\ written = str1),
                        caseType |-> caseType,
                        maxLength |-> maxLength,
                        truncationIndicator |-> truncationIndicator]
    /\ UNCHANGED <<str1, str2, prefixScale, dedupVars, keyVars>>

\* formatText called with a case type, as the utility is exported
FormatTextCall ==
    /\ fn = "none"
    /\ fn' = "formatText"
    /\ \E caseType \in {"none", "lower", "upper", "title", "sentence"},
          maxLength \in 0..MaxTextLen,
          truncationIndicator \in TruncationIndicators,
          trimWhitespace \in BOOLEAN, removeLineBreaks \in BOOLEAN,
          removeSpecialChars \in BOOLEAN, removeNumbers \in BOOLEAN,
          removePunctuation \in BOOLEAN :
          ret' = [text |-> formatText(str1,
                      [trimWhitespace |-> trimWhitespace,
                       removeLineBreaks |-> removeLineBreaks,
                       caseType |-> caseType,
                       removeSpecialChars |-> removeSpecialChars,
                       removeNumbers |-> removeNumbers,
                       removePunctuation |-> removePunctuation,
                       maxLength |-> maxLength,
                       truncationIndicator |-> truncationIndicator]),
                  changed |-> FALSE,
                  returned |-> TRUE,
                  caseType |-> caseType,
                  maxLength |-> maxLength,
                  truncationIndicator |-> truncationIndicator]
    /\ UNCHANGED <<str1, str2, prefixScale, dedupVars, keyVars>>

NextFormat == ExecuteFormatText \/ FormatTextCall

SpecFormat == InitFormat /\ [][NextFormat]_vars

(* C26: with a maximum length n > 0 the text the Format Text operation       *)
(* writes has at most n characters, whatever the truncation indicator and    *)
(* the case conversion.                                                      *)
C26_AtMostMaxLength ==
    (fn = "executeFormatText" /\ ret.maxLength > 0) =>
        Len(ret.text) <= ret.maxLength

----------------------------------------------------------------------------
(* Names: parseName *)

MaxNameTokens == 3

NAME_PREFIXES ==
    {<<"m", "r">>, <<"m", "r", "s">>, <<"m", "s">>,
     <<"m", "i", "s", "s">>, <<"d", "r">>, <<"p", "r", "o", "f">>,
     <<"p", "r", "o", "f", "e", "s", "s", "o", "r">>, <<"r", "e", "v">>,
     <<"r", "e", "v", "e", "r", "e", "n", "d">>, <<"f", "r">>,
     <<"f", "a", "t", "h", "e", "r">>, <<"s", "r">>,
     <<"s", "i", "s", "t", "e", "r">>, <<"h", "o", "n">>,
     <<"h", "o", "n", "o", "r", "a", "b", "l", "e">>,
     <<"j", "u", "d", "g", "e">>, <<"j", "u", "s", "t", "i", "c", "e">>,
     <<"s", "i", "r">>, <<"d", "a", "m", "e">>, <<"l", "o", "r", "d">>,
     <<"l", "a", "d", "y">>, <<"c", "a", "p", "t">>,
     <<"c", "a", "p", "t", "a", "i", "n">>, <<"c", "o", "l">>,
     <<"c", "o", "l", "o", "n", "e", "l">>, <<"g", "e", "n">>,
     <<"g", "e", "n", "e", "r", "a", "l">>, <<"l", "t">>,
     <<"l", "i", "e", "u", "t", "e", "n", "a", "n", "t">>,
     <<"s", "g", "t">>, <<"s", "e", "r", "g", "e", "a", "n", "t">>,
     <<"c", "p", "l">>, <<"c", "o", "r", "p", "o", "r", "a", "l">>,
     <<"p", "v", "t">>, <<"p", "r", "i", "v", "a", "t", "e">>,
     <<"a", "d", "m">>, <<"a", "d", "m", "i", "r", "a", "l">>,
     <<"c", "m", "d", "r">>,
     <<"c", "o", "m", "m", "a", "n", "d", "e", "r">>, <<"m", "a", "j">>,
     <<"m", "a", "j", "o", "r">>}

NAME_SUFFIXES ==
    {<<"j", "r">>, <<"s", "r">>, <<"i">>, <<"i", "i">>, <<"i", "i", "i">>,
     <<"i", "v">>, <<"v">>, <<"v", "i">>, <<"v", "i", "i">>,
     <<"v", "i", "i", "i">>, <<"i", "x">>, <<"x">>, <<"p", "h", "d">>,
     <<"m", "d">>, <<"d", "d", "s">>, <<"d", "v", "m">>, <<"j", "d">>,
     <<"e", "s", "q">>, <<"e", "s", "q", "u", "i", "r", "e">>,
     <<"c", "p", "a">>, <<"r", "n">>, <<"r", "p", "h">>, <<"p", "e">>,
     <<"r", "a">>, <<"a", "i", "a">>, <<"f", "a", "i", "a">>,
     <<"r", "e", "t">>, <<"r", "e", "t", "i", "r", "e", "d">>,
     <<"u", "s", "n">>, <<"u", "s", "m", "c">>, <<"u", "s", "a", "f">>,
     <<"u", "s", "a">>}

\* s.split(sep): the pieces of s between the occurrences of the character
\* sep, the empty ones too; "piece" is the piece under construction
RECURSIVE SplitOn(_, _, _, _)
SplitOn(s, sep, k, piece) ==
    IF k > Len(s) THEN <<piece>>
    ELSE IF s[k] = sep
         THEN <<piece>> \o SplitOn(s, sep, k + 1, <<>>)
         ELSE SplitOn(s, sep, k + 1, Append(piece, s[k]))

\* words.join(sep)
RECURSIVE JoinWith(_, _)
JoinWith(words, sep) ==
    IF words = <<>> THEN <<>>
    ELSE IF Len(words) = 1 THEN words[1]
    ELSE words[1] \o sep \o JoinWith(Tail(words), sep)

\* fullName.trim().replace(/\s+/g, ' ')
NormalizeSpaces(fullName) ==
    ReplaceRuns(trim(fullName), WhiteSpace \cup {"\r"}, <<" ">>, 1)

\* "Last, First Middle" becomes "First Middle Last"
CommaReorder(name) ==
    IF \E k \in 1..Len(name) : name[k] = ","
    THEN LET pieces == SplitOn(name, ",", 1, <<>>)
             trimmed == [k \in 1..Len(pieces) |-> trim(pieces[k])]
         IN  IF Len(trimmed) > 1
             THEN JoinWith(Tail(trimmed), <<" ">>) \o <<" ">> \o Head(trimmed)
             ELSE name
    ELSE name

\* .toLowerCase().replace(/\./g, ''), for a suffix also .replace(/,/g, ''):
\* the token in lower case without the dropped characters
LexiconForm(token, dropped) ==
    SelectSeq(toLowerCase(token), LAMBDA c : c \notin dropped)

\* a prefix is taken off a first token of any number
HasPrefixAlways(parts) ==
    parts # <<>> /\ LexiconForm(parts[1], {"."}) \in NAME_PREFIXES

\* the condition under which parts.shift() becomes the prefix
HasPrefix(parts) ==
    Len(parts) > 1 /\ LexiconForm(parts[1], {"."}) \in NAME_PREFIXES

\* the while loop that moves trailing suffixes from parts to suffixes
RECURSIVE StripSuffixes(_, _)
StripSuffixes(parts, suffixes) ==
    IF Len(parts) > 1 /\ LexiconForm(parts[Len(parts)], {".", ","}) \in NAME_SUFFIXES
    THEN StripSuffixes(SubSeq(parts, 1, Len(parts) - 1),
                       <<parts[Len(parts)]>> \o suffixes)
    ELSE [parts |-> parts, suffixes |-> suffixes]

\* no middle name at all
MiddleNone(parts) == <<>>

\* parts.slice(1, -1).join(' ')
MiddleOf(parts) == JoinWith(SubSeq(parts, 2, Len(parts) - 1), <<" ">>)

\* the initials of the non-empty names among first, middle and last
Initials(names) ==
    LET present == SelectSeq(names, LAMBDA n : n # <<>>)
        letters == [k \in 1..Len(present) |-> <<toUpperChar(present[k][1])>>]
    IN  JoinWith(letters, <<".">>) \o (IF Len(letters) > 0 THEN <<".">> ELSE <<>>)

EmptyName ==
    [full |-> <<>>, firstName |-> <<>>, middleName |-> <<>>,
     lastName |-> <<>>, prefix |-> <<>>, suffix |-> <<>>, initials |-> <<>>]

\* parseName on a string
parseName(fullName) ==
    IF fullName = <<>> THEN EmptyName
    ELSE
    LET name == NormalizeSpaces(fullName)
        allParts == SplitWords(CommaReorder(name), 1, <<>>)
        shifted == HasPrefix(allParts)
        stripped == StripSuffixes(IF shifted THEN Tail(allParts) ELSE allParts,
                                  <<>>)
        parts == stripped.parts
        firstName == IF parts = <<>> THEN <<>> ELSE parts[1]
        lastName == IF Len(parts) >= 2 THEN parts[Len(parts)] ELSE <<>>
        middleName == IF Len(parts) >= 3 THEN MiddleOf(parts) ELSE <<>>
    IN  IF allParts = <<>> THEN [EmptyName EXCEPT !.full = name]
        ELSE [full |-> name,
              firstName |-> firstName,
              middleName |-> middleName,
              lastName |-> lastName,
              prefix |-> IF shifted THEN allParts[1] ELSE <<>>,
              suffix |-> JoinWith(stripped.suffixes, <<" ">>),
              initials |-> Initials(<<firstName, middleName, lastName>>)]

----------------------------------------------------------------------------
(* SpecName: one call of parseName *)

NameTokens ==
    {<<"D", "r", ".">>, <<"m", "r">>, <<"J", "o">>, <<"l", "i">>,
     <<"J", "r", ".">>, <<"I", "I", "I">>, <<"S", "r">>}

\* the tokens joined by single blanks, with a comma after the first "comma"
\* tokens when comma > 0
RECURSIVE Spelled(_, _, _)
Spelled(tokens, comma, k) ==
    IF k > Len(tokens) THEN <<>>
    ELSE tokens[k]
            \o (IF k = comma THEN <<",">> ELSE <<>>)
            \o (IF k < Len(tokens) THEN <<" ">> ELSE <<>>)
            \o Spelled(tokens, comma, k + 1)

\* "Dr. John Smith Jr." and "Smith, John, Jr"
DrJohnSmithJr ==
    <<"D", "r", ".", " ", "J", "o", "h", "n", " ", "S", "m", "i", "t", "h",
      " ", "J", "r", ".">>
SmithJohnJr ==
    <<"S", "m", "i", "t", "h", ",", " ", "J", "o", "h", "n", ",", " ",
      "J", "r">>

NameInputs ==
    {Spelled(tokens, comma, 1) :
        tokens \in SeqsUpTo(NameTokens, MaxNameTokens), comma \in 0..MaxNameTokens}
    \cup {<<" ", "\t">> \o Spelled(tokens, 0, 1) \o <<" ">> :
            tokens \in SeqsUpTo(NameTokens, MaxNameTokens)}
    \cup {DrJohnSmithJr, SmithJohnJr, <<",">>,
          <<"J", "o", " ", " ", "l", "i">>}

InitName ==
    /\ fn = "none"
    /\ str1 \in NameInputs
    /\ str2 = <<>>
    /\ prefixScale = DefaultPrefixScale
    /\ ret = Zero
    /\ DedupIdle
    /\ KeysIdle

ParseNameCall ==
    /\ fn = "none"
    /\ fn' = "parseName"
    /\ ret' = parseName(str1)
    /\ UNCHANGED <<str1, str2, prefixScale, dedupVars, keyVars>>

NextName == ParseNameCall

SpecName == InitName /\ [][NextName]_vars

\* the tokens of a text: its maximal runs of characters that are neither
\* white space nor commas
TokensOf(text) ==
    SplitWords([k \in 1..Len(text) |->
                   IF text[k] \in WhiteSpace \cup {","} THEN " " ELSE text[k]],
               1, <<>>)

\* the tokens of a name after the comma reorder: what follows the first comma
\* comes first, what precedes it comes last
ReorderedTokens(text) ==
    IF \E k \in 1..Len(text) : text[k] = ","
    THEN LET comma == CHOOSE k \in 1..Len(text) :
                          text[k] = "," /\ \A m \in 1..(k - 1) : text[m] # ","
         IN  TokensOf(SubSeq(text, comma + 1, Len(text)))
                 \o TokensOf(SubSeq(text, 1, comma - 1))
    ELSE TokensOf(text)

\* the maximal runs of characters of a text that are not white space
TokensOfSpaces(text) ==
    SplitWords([k \in 1..Len(text) |->
                   IF text[k] \in WhiteSpace THEN " " ELSE text[k]], 1, <<>>)

\* a token without its periods and in lower case
Bare(token) == SelectSeq(toLowerCase(token), LAMBDA c : c # ".")

(* C21: parseName normalizes white space, moves the part before a comma to   *)
(* the end, takes at most one leading title off as prefix, takes trailing    *)
(* suffix tokens off as long as a token stays, and gives the remaining       *)
(* tokens to firstName, middleName and lastName: one token is the first      *)
(* name, two are first and last, of three or more the last is the last name  *)
(* and those between the middle name; "Dr. John Smith Jr." gives Dr., John,  *)
(* Smith, Jr. and the initials J.S.                                          *)
C21_ParseName ==
    (fn = "parseName") =>
        LET tokens == ReorderedTokens(str1)
            n == Len(tokens)
            p == IF n > 1 /\ Bare(tokens[1]) \in NAME_PREFIXES THEN 1 ELSE 0
            runs == {k \in 0..(n - p - 1) :
                        \A m \in (n - k + 1)..n : Bare(tokens[m]) \in NAME_SUFFIXES}
            s == IF runs = {} THEN 0
                 ELSE CHOOSE k \in runs : \A other \in runs : other <= k
            core == SubSeq(tokens, p + 1, n - s)
        IN  /\ ret.full = JoinWith(TokensOfSpaces(str1), <<" ">>)
            /\ ret.prefix = (IF p = 1 THEN tokens[1] ELSE <<>>)
            /\ ret.suffix = JoinWith(SubSeq(tokens, n - s + 1, n), <<" ">>)
            /\ ret.firstName = (IF Len(core) >= 1 THEN core[1] ELSE <<>>)
            /\ ret.lastName = (IF Len(core) >= 2 THEN core[Len(core)] ELSE <<>>)
            /\ ret.middleName = JoinWith(SubSeq(core, 2, Len(core) - 1), <<" ">>)
            /\ (str1 = DrJohnSmithJr =>
                   /\ ret.prefix = <<"D", "r", ".">>
                   /\ ret.firstName = <<"J", "o", "h", "n">>
                   /\ ret.lastName = <<"S", "m", "i", "t", "h">>
                   /\ ret.suffix = <<"J", "r", ".">>
                   /\ ret.initials = <<"J", ".", "S", ".">>)

C21_Witness ==
    /\ fn = "parseName"
    /\ \E k \in 1..Len(str1) : str1[k] = ","
    /\ ret.prefix # <<>>
    /\ ret.suffix # <<>>
    /\ ret.firstName # <<>>

\* the tokens of the five name fields of a result, in that order
FieldTokens(parsed) ==
    TokensOf(parsed.prefix) \o TokensOf(parsed.firstName)
        \o TokensOf(parsed.middleName) \o TokensOf(parsed.lastName)
        \o TokensOf(parsed.suffix)

(* C29, as stated: for every non-empty name the tokens of the name after the *)
(* comma reorder are the tokens of prefix, firstName, middleName, lastName   *)
(* and suffix in that order, and firstName is not empty.                     *)
C29_AsStated ==
    (fn = "parseName" /\ NormalizeSpaces(str1) # <<>>) =>
        /\ FieldTokens(ret) = ReorderedTokens(str1)
        /\ ret.firstName # <<>>

(* C29, amended: for every name that has at least one token, the tokens of   *)
(* the name after the comma reorder are the tokens of prefix, firstName,     *)
(* middleName, lastName and suffix in that order, and firstName is not       *)
(* empty.                                                                    *)
C29_NoTokenLost ==
    (fn = "parseName" /\ ReorderedTokens(str1) # <<>>) =>
        /\ FieldTokens(ret) = ReorderedTokens(str1)
        /\ ret.firstName # <<>>

C29_Witness ==
    /\ fn = "parseName"
    /\ \E k \in 1..Len(str1) : str1[k] = ","
    /\ ret.middleName # <<>>
    /\ Len(ReorderedTokens(str1)) >= 3

\* the element of a set of one element; {F(x) : x \in {e}} has e evaluated
\* once, however often F reads x
The(S) == CHOOSE x \in S : TRUE

----------------------------------------------------------------------------
(* Regular expressions, as the JavaScript engine matches them: a            *)
(* backtracking matcher that tries alternatives from left to right and a    *)
(* greedy repetition from the longest run down                              *)

\* the pattern nodes
Chars(set) == [t |-> "set", chars |-> set]
NotChars(set) == [t |-> "not", chars |-> set]
Concat(parts) == [t |-> "seq", parts |-> parts]
Either(parts) == [t |-> "alt", parts |-> parts]
Repeat(of, min, max) == [t |-> "rep", of |-> of, min |-> min, max |-> max, lazy |-> FALSE]
RepeatLazy(of, min, max) == [t |-> "rep", of |-> of, min |-> min, max |-> max, lazy |-> TRUE]
Group(n, of) == [t |-> "group", n |-> n, of |-> of]
WordBoundary == [t |-> "wordb"]
LineStart == [t |-> "start"]
LineEnd == [t |-> "end"]
Literal(s) == Concat([k \in 1..Len(s) |-> Chars({s[k]})])
Optional(of) == Repeat(of, 0, 1)
\* no upper limit of a repetition
Unlimited == 0 - 1

Letters == LowerSet \cup UpperSet
Spaces == WhiteSpace \cup {"\r"}
NoGroups == <<<<0, 0>>, <<0, 0>>>>

\* the character of s at place k as the pattern sees it
Seen(s, k, fold) == IF fold THEN toLowerChar(s[k]) ELSE s[k]

\* \b at place k: exactly one of the characters before and at k is a word
\* character
AtWordBoundary(s, k) ==
    (k > 1 /\ s[k - 1] \in WordChars) # (k <= Len(s) /\ s[k] \in WordChars)

\* the ways pattern r matches in s from the match state m = [at, groups] on,
\* in the order in which backtracking tries them; "at" is the place of the
\* next character, groups[n] the places <<from, to>> of capture group n
RECURSIVE MatchFrom(_, _, _, _)
RECURSIVE MatchEach(_, _, _, _)
RECURSIVE MatchAny(_, _, _, _)

\* r matched from each of the states in turn
MatchEach(states, r, s, fold) ==
    IF states = <<>> THEN <<>>
    ELSE LET first == MatchFrom(r, s, fold, Head(states))
         IN  first \o MatchEach(Tail(states), r, s, fold)

\* each of the patterns in turn matched from m
MatchAny(patterns, s, fold, m) ==
    IF patterns = <<>> THEN <<>>
    ELSE LET first == MatchFrom(Head(patterns), s, fold, m)
         IN  first \o MatchAny(Tail(patterns), s, fold, m)

\* the match states of the inside of capture group n, which began at "from"
Captured(inner, n, from) ==
    [k \in 1..Len(inner) |-> [inner[k] EXCEPT !.groups[n] = <<from, inner[k].at>>]]

MatchFrom(r, s, fold, m) ==
    CASE r.t = "set" ->
            IF m.at <= Len(s) /\ Seen(s, m.at, fold) \in r.chars
            THEN <<[m EXCEPT !.at = @ + 1]>> ELSE <<>>
      [] r.t = "not" ->
            IF m.at <= Len(s) /\ Seen(s, m.at, fold) \notin r.chars
            THEN <<[m EXCEPT !.at = @ + 1]>> ELSE <<>>
      [] r.t = "seq" ->
            IF r.parts = <<>> THEN <<m>>
            ELSE LET heads == MatchFrom(Head(r.parts), s, fold, m)
                 IN  MatchEach(heads, Concat(Tail(r.parts)), s, fold)
      [] r.t = "alt" -> MatchAny(r.parts, s, fold, m)
      [] r.t = "rep" ->
            LET once == IF r.max = 0 THEN <<>>
                        ELSE SelectSeq(MatchFrom(r.of, s, fold, m),
                                       LAMBDA x : x.at > m.at)
                more == MatchEach(once,
                                  [r EXCEPT !.min = Max2(@ - 1, 0),
                                            !.max = IF @ = Unlimited THEN @ ELSE @ - 1],
                                  s, fold)
                stop == IF r.min = 0 THEN <<m>> ELSE <<>>
            IN  IF r.lazy THEN stop \o more ELSE more \o stop
      [] r.t = "group" -> Captured(MatchFrom(r.of, s, fold, m), r.n, m.at)
      [] r.t = "wordb" -> IF AtWordBoundary(s, m.at) THEN <<m>> ELSE <<>>
      [] r.t = "start" -> IF m.at = 1 THEN <<m>> ELSE <<>>
      [] r.t = "end" -> IF m.at = Len(s) + 1 THEN <<m>> ELSE <<>>

\* the first match of r in s that starts at place k or later: [from, to,
\* groups] with s[from..to-1] the matched text, or from = 0 when none
RECURSIVE Search(_, _, _, _)
Search(r, s, fold, k) ==
    IF k > Len(s) + 1 THEN [from |-> 0, to |-> 0, groups |-> NoGroups]
    ELSE The({IF found = <<>> THEN Search(r, s, fold, k + 1)
              ELSE [from |-> k, to |-> found[1].at, groups |-> found[1].groups] :
                 found \in {MatchFrom(r, s, fold, [at |-> k, groups |-> NoGroups])}})

\* the matches of the global pattern r in s from place k on
RECURSIVE MatchesFrom(_, _, _, _)
MatchesFrom(r, s, fold, k) ==
    The({IF found.from = 0 THEN <<>>
         ELSE <<found>> \o MatchesFrom(r, s, fold,
                               IF found.to = found.from THEN found.to + 1
                               ELSE found.to) :
            found \in {Search(r, s, fold, k)}})

\* the text of a match
TextOf(s, found) == SubSeq(s, found.from, found.to - 1)

\* the text of capture group n of a match
GroupOf(s, found, n) == SubSeq(s, found.groups[n][1], found.groups[n][2] - 1)

\* text.match(r) || [] for a global pattern r
MatchAll(s, r, fold) ==
    The({[k \in 1..Len(found) |-> TextOf(s, found[k])] :
            found \in {MatchesFrom(r, s, fold, 1)}})

\* [...new Set(values)]: the values without the later copies
RECURSIVE Unique(_, _)
Unique(values, seen) ==
    IF values = <<>> THEN <<>>
    ELSE IF Head(values) \in seen THEN Unique(Tail(values), seen)
    ELSE <<Head(values)>> \o Unique(Tail(values), seen \cup {Head(values)})

----------------------------------------------------------------------------
(* Extraction: extractFromText *)

MaxSnippets == 2

Digit == Chars(Digits)
PhoneSeparator == Chars({"-", "."} \cup Spaces)
AnySpaces == Repeat(Chars(Spaces), 0, Unlimited)
SomeSpaces == Repeat(Chars(Spaces), 1, Unlimited)

\* /[a-zA-Z0-9._%+-]+@[a-zA-Z0-9.-]+\.[a-zA-Z]{2,}/g
emailRegex ==
    Concat(<<Repeat(Chars(Letters \cup Digits \cup {".", "_", "%", "+", "-"}),
                    1, Unlimited),
             Chars({"@"}),
             Repeat(Chars(Letters \cup Digits \cup {".", "-"}), 1, Unlimited),
             Chars({"."}),
             Repeat(Chars(Letters), 2, Unlimited)>>)

\* /(?:\+?1[-.\s]?)?(?:\(?\d{3}\)?[-.\s]?)?\d{3}[-.\s]?\d{4}
\*  (?:\s*(?:ext\.?|x)\s*\d+)?/gi
phoneRegex ==
    Concat(<<Optional(Concat(<<Optional(Chars({"+"})), Chars({"1"}),
                               Optional(PhoneSeparator)>>)),
             Optional(Concat(<<Optional(Chars({"("})), Repeat(Digit, 3, 3),
                               Optional(Chars({")"})), Optional(PhoneSeparator)>>)),
             Repeat(Digit, 3, 3),
             Optional(PhoneSeparator),
             Repeat(Digit, 4, 4),
             Optional(Concat(<<AnySpaces,
                               Either(<<Concat(<<Literal(<<"e", "x", "t">>),
                                                 Optional(Chars({"."}))>>),
                                        Chars({"x"})>>),
                               AnySpaces,
                               Repeat(Digit, 1, Unlimited)>>))>>)

\* /https?:\/\/[^\s<>"{}|\\^`[\]]+/gi, the string "BACKTICK" standing for
\* the character `
urlRegex ==
    Concat(<<Literal(<<"h", "t", "t", "p">>), Optional(Chars({"s"})),
             Literal(<<":", "/", "/">>),
             Repeat(NotChars(Spaces \cup {"<", ">", "\"", "{", "}", "|", "\\",
                                          "^", "BACKTICK", "[", "]"}),
                    1, Unlimited)>>)

\* (?:Jan|Feb|Mar|Apr|May|Jun|Jul|Aug|Sep|Oct|Nov|Dec)[a-z]*\.?
MonthName ==
    Concat(<<Either(<<Literal(<<"j", "a", "n">>),
                      Literal(<<"f", "e", "b">>),
                      Literal(<<"m", "a", "r">>),
                      Literal(<<"a", "p", "r">>),
                      Literal(<<"m", "a", "y">>),
                      Literal(<<"j", "u", "n">>),
                      Literal(<<"j", "u", "l">>),
                      Literal(<<"a", "u", "g">>),
                      Literal(<<"s", "e", "p">>),
                      Literal(<<"o", "c", "t">>),
                      Literal(<<"n", "o", "v">>),
                      Literal(<<"d", "e", "c">>)>>),
             Repeat(Chars(LowerSet), 0, Unlimited),
             Optional(Chars({"."}))>>)

\* the five date patterns, all global, the last two ignoring case
datePatterns ==
    <<\* /\d{1,2}\/\d{1,2}\/\d{2,4}/g
      [regex |-> Concat(<<Repeat(Digit, 1, 2), Chars({"/"}), Repeat(Digit, 1, 2),
                          Chars({"/"}), Repeat(Digit, 2, 4)>>),
       fold |-> FALSE],
      \* /\d{4}-\d{2}-\d{2}/g
      [regex |-> Concat(<<Repeat(Digit, 4, 4), Chars({"-"}), Repeat(Digit, 2, 2),
                          Chars({"-"}), Repeat(Digit, 2, 2)>>),
       fold |-> FALSE],
      \* /\d{1,2}-\d{1,2}-\d{2,4}/g
      [regex |-> Concat(<<Repeat(Digit, 1, 2), Chars({"-"}), Repeat(Digit, 1, 2),
                          Chars({"-"}), Repeat(Digit, 2, 4)>>),
       fold |-> FALSE],
      \* /(?:Jan|...|Dec)[a-z]*\.?\s+\d{1,2},?\s+\d{4}/gi
      [regex |-> Concat(<<MonthName, SomeSpaces, Repeat(Digit, 1, 2),
                          Optional(Chars({","})), SomeSpaces, Repeat(Digit, 4, 4)>>),
       fold |-> TRUE],
      \* /\d{1,2}\s+(?:Jan|...|Dec)[a-z]*\.?\s+\d{4}/gi
      [regex |-> Concat(<<Repeat(Digit, 1, 2), SomeSpaces, MonthName, SomeSpaces,
                          Repeat(Digit, 4, 4)>>),
       fold |-> TRUE]>>

\* the signs of the euro, the pound, the yen and the rupee, one character each
CurrencySigns == {"EURO", "POUND", "YEN", "RUPEE"}

\* /(?:\$|EURO|POUND|YEN|RUPEE|USD|EUR|GBP)\s*[\d,]+(?:\.\d{2})?
\*  |\d+(?:,\d{3})*(?:\.\d{2})?\s*(?:dollars?|euros?|pounds?)/gi
amountRegex ==
    Either(<<Concat(<<Either(<<Chars({"$"}), Chars({"EURO"}), Chars({"POUND"}),
                               Chars({"YEN"}), Chars({"RUPEE"}),
                               Literal(<<"u", "s", "d">>),
                               Literal(<<"e", "u", "r">>),
                               Literal(<<"g", "b", "p">>)>>),
                      AnySpaces,
                      Repeat(Chars(Digits \cup {","}), 1, Unlimited),
                      Optional(Concat(<<Chars({"."}), Repeat(Digit, 2, 2)>>))>>),
             Concat(<<Repeat(Digit, 1, Unlimited),
                      Repeat(Concat(<<Chars({","}), Repeat(Digit, 3, 3)>>),
                             0, Unlimited),
                      Optional(Concat(<<Chars({"."}), Repeat(Digit, 2, 2)>>)),
                      AnySpaces,
                      Either(<<Concat(<<Literal(<<"d", "o", "l", "l", "a", "r">>),
                                        Optional(Chars({"s"}))>>),
                               Concat(<<Literal(<<"e", "u", "r", "o">>),
                                        Optional(Chars({"s"}))>>),
                               Concat(<<Literal(<<"p", "o", "u", "n", "d">>),
                                        Optional(Chars({"s"}))>>)>>)>>)>>)

\* /#[a-zA-Z][a-zA-Z0-9_]*/g
hashtagRegex ==
    Concat(<<Chars({"#"}), Chars(Letters), Repeat(Chars(WordChars), 0, Unlimited)>>)

\* /@[a-zA-Z][a-zA-Z0-9_]*/g
mentionRegex ==
    Concat(<<Chars({"@"}), Chars(Letters), Repeat(Chars(WordChars), 0, Unlimited)>>)

\* /\b\d+(?:,\d{3})*(?:\.\d+)?\b/g
numberRegex ==
    Concat(<<WordBoundary, Repeat(Digit, 1, Unlimited),
             Repeat(Concat(<<Chars({","}), Repeat(Digit, 3, 3)>>), 0, Unlimited),
             Optional(Concat(<<Chars({"."}), Repeat(Digit, 1, Unlimited)>>)),
             WordBoundary>>)

\* the longest number that is kept, in characters
MaxNumberLength == 10

\* the matches of the date patterns, pattern after pattern
RECURSIVE AllDates(_, _)
AllDates(text, patterns) ==
    IF patterns = <<>> THEN <<>>
    ELSE MatchAll(text, Head(patterns).regex, Head(patterns).fold)
            \o AllDates(text, Tail(patterns))

EmptyExtractedData ==
    [emails |-> <<>>, phones |-> <<>>, urls |-> <<>>, dates |-> <<>>,
     amounts |-> <<>>, hashtags |-> <<>>, mentions |-> <<>>, numbers |-> <<>>]

\* the phone matches trimmed, those with fewer than seven digits left out
PhonesOf(text) ==
    The({SelectSeq([k \in 1..Len(phoneMatches) |-> trim(phoneMatches[k])],
                   LAMBDA p : Len(DigitsOnly(p)) >= 7) :
            phoneMatches \in {MatchAll(text, phoneRegex, TRUE)}})

\* the number matches that do not look like part of a date or a phone
NumbersOf(text) ==
    SelectSeq(MatchAll(text, numberRegex, FALSE),
              LAMBDA n : /\ Len(n) <= MaxNumberLength
                         /\ \A k \in 1..Len(n) : n[k] \notin {"/", "-"})

\* extractFromText on a string
extractFromText(text) ==
    IF text = <<>> THEN EmptyExtractedData
    ELSE [emails |-> Unique(MatchAll(text, emailRegex, FALSE), {}),
          phones |-> Unique(PhonesOf(text), {}),
          urls |-> Unique(MatchAll(text, urlRegex, TRUE), {}),
          dates |-> Unique(AllDates(text, datePatterns), {}),
          amounts |-> Unique(MatchAll(text, amountRegex, TRUE), {}),
          hashtags |-> Unique(MatchAll(text, hashtagRegex, FALSE), {}),
          mentions |-> Unique(MatchAll(text, mentionRegex, FALSE), {}),
          numbers |-> Unique(NumbersOf(text), {})]

----------------------------------------------------------------------------
(* SpecExtract: one call of extractFromText *)

\* "a@b.co", "J@k.io", "1/2/24", "2024-01-15", "555-1234", "http://x.y",
\* "$5", "7 euros", "#t1", "@me", "42" and "3 Jan 2024"
Snippets ==
    {<<"a", "@", "b", ".", "c", "o">>,
     <<"J", "@", "k", ".", "i", "o">>,
     <<"1", "/", "2", "/", "2", "4">>,
     <<"2", "0", "2", "4", "-", "0", "1", "-", "1", "5">>,
     <<"5", "5", "5", "-", "1", "2", "3", "4">>,
     <<"h", "t", "t", "p", ":", "/", "/", "x", ".", "y">>,
     <<"$", "5">>,
     <<"7", " ", "e", "u", "r", "o", "s">>,
     <<"#", "t", "1">>,
     <<"@", "m", "e">>,
     <<"4", "2">>,
     <<"3", " ", "J", "a", "n", " ", "2", "0", "2", "4">>}

ExtractTexts ==
    {JoinWith(snippets, <<" ">>) : snippets \in SeqsUpTo(Snippets, MaxSnippets)}

InitExtract ==
    /\ fn = "none"
    /\ str1 \in ExtractTexts
    /\ str2 = <<>>
    /\ prefixScale = DefaultPrefixScale
    /\ ret = Zero
    /\ DedupIdle
    /\ KeysIdle

ExtractFromTextCall ==
    /\ fn = "none"
    /\ fn' = "extractFromText"
    /\ ret' = extractFromText(str1)
    /\ UNCHANGED <<str1, str2, prefixScale, dedupVars, keyVars>>

NextExtract == ExtractFromTextCall

SpecExtract == InitExtract /\ [][NextExtract]_vars

\* where the patterns match in a text: the pairs <<place, matched text>> of
\* every match of every one of the patterns
Occurrences(text, patterns) ==
    UNION {LET found == MatchesFrom(patterns[p].regex, text, patterns[p].fold, 1)
           IN  {<<found[k].from, trim(TextOf(text, found[k]))>> : k \in 1..Len(found)}
           : p \in 1..Len(patterns)}

\* the first place at which a value is matched
FirstPlace(occurrences, value) ==
    LET places == {o[1] : o \in {x \in occurrences : x[2] = value}}
    IN  CHOOSE p \in places : \A q \in places : p <= q

\* a listing has no value twice and lists its values, all of them matched
\* somewhere, in the order of the places where they are first matched
InOrderOfFirstOccurrence(listing, occurrences) ==
    /\ \A a, b \in 1..Len(listing) : a < b => listing[a] # listing[b]
    /\ \A a \in 1..Len(listing) : \E o \in occurrences : o[2] = listing[a]
    /\ \A a, b \in 1..Len(listing) :
          a < b => FirstPlace(occurrences, listing[a])
                      <= FirstPlace(occurrences, listing[b])

(* C25: each of the eight sequences of a result of extractFromText has no    *)
(* value twice and lists its values in the order in which they first occur   *)
(* in the text.                                                              *)
C25_FirstOccurrenceOrder ==
    (fn = "extractFromText") =>
        /\ InOrderOfFirstOccurrence(ret.emails,
               Occurrences(str1, <<[regex |-> emailRegex, fold |-> FALSE]>>))
        /\ InOrderOfFirstOccurrence(ret.phones,
               Occurrences(str1, <<[regex |-> phoneRegex, fold |-> TRUE]>>))
        /\ InOrderOfFirstOccurrence(ret.urls,
               Occurrences(str1, <<[regex |-> urlRegex, fold |-> TRUE]>>))
        /\ InOrderOfFirstOccurrence(ret.dates, Occurrences(str1, datePatterns))
        /\ InOrderOfFirstOccurrence(ret.amounts,
               Occurrences(str1, <<[regex |-> amountRegex, fold |-> TRUE]>>))
        /\ InOrderOfFirstOccurrence(ret.hashtags,
               Occurrences(str1, <<[regex |-> hashtagRegex, fold |-> FALSE]>>))
        /\ InOrderOfFirstOccurrence(ret.mentions,
               Occurrences(str1, <<[regex |-> mentionRegex, fold |-> FALSE]>>))
        /\ InOrderOfFirstOccurrence(ret.numbers,
               Occurrences(str1, <<[regex |-> numberRegex, fold |-> FALSE]>>))

----------------------------------------------------------------------------
(* Addresses: parseAddress *)

\* the table of the full names of the states and their abbreviations
US_STATES ==
    {<<<<"a", "l", "a", "b", "a", "m", "a">>, <<"A", "L">>>>,
     <<<<"a", "l", "a", "s", "k", "a">>, <<"A", "K">>>>,
     <<<<"a", "r", "i", "z", "o", "n", "a">>, <<"A", "Z">>>>,
     <<<<"a", "r", "k", "a", "n", "s", "a", "s">>, <<"A", "R">>>>,
     <<<<"c", "a", "l", "i", "f", "o", "r", "n", "i", "a">>, <<"C", "A">>>>,
     <<<<"c", "o", "l", "o", "r", "a", "d", "o">>, <<"C", "O">>>>,
     <<<<"c", "o", "n", "n", "e", "c", "t", "i", "c", "u", "t">>, <<"C", "T">>>>,
     <<<<"d", "e", "l", "a", "w", "a", "r", "e">>, <<"D", "E">>>>,
     <<<<"f", "l", "o", "r", "i", "d", "a">>, <<"F", "L">>>>,
     <<<<"g", "e", "o", "r", "g", "i", "a">>, <<"G", "A">>>>,
     <<<<"h", "a", "w", "a", "i", "i">>, <<"H", "I">>>>,
     <<<<"i", "d", "a", "h", "o">>, <<"I", "D">>>>,
     <<<<"i", "l", "l", "i", "n", "o", "i", "s">>, <<"I", "L">>>>,
     <<<<"i", "n", "d", "i", "a", "n", "a">>, <<"I", "N">>>>,
     <<<<"i", "o", "w", "a">>, <<"I", "A">>>>,
     <<<<"k", "a", "n", "s", "a", "s">>, <<"K", "S">>>>,
     <<<<"k", "e", "n", "t", "u", "c", "k", "y">>, <<"K", "Y">>>>,
     <<<<"l", "o", "u", "i", "s", "i", "a", "n", "a">>, <<"L", "A">>>>,
     <<<<"m", "a", "i", "n", "e">>, <<"M", "E">>>>,
     <<<<"m", "a", "r", "y", "l", "a", "n", "d">>, <<"M", "D">>>>,
     <<<<"m", "a", "s", "s", "a", "c", "h", "u", "s", "e", "t", "t", "s">>, <<"M", "A">>>>,
     <<<<"m", "i", "c", "h", "i", "g", "a", "n">>, <<"M", "I">>>>,
     <<<<"m", "i", "n", "n", "e", "s", "o", "t", "a">>, <<"M", "N">>>>,
     <<<<"m", "i", "s", "s", "i", "s", "s", "i", "p", "p", "i">>, <<"M", "S">>>>,
     <<<<"m", "i", "s", "s", "o", "u", "r", "i">>, <<"M", "O">>>>,
     <<<<"m", "o", "n", "t", "a", "n", "a">>, <<"M", "T">>>>,
     <<<<"n", "e", "b", "r", "a", "s", "k", "a">>, <<"N", "E">>>>,
     <<<<"n", "e", "v", "a", "d", "a">>, <<"N", "V">>>>,
     <<<<"n", "e", "w", " ", "h", "a", "m", "p", "s", "h", "i", "r", "e">>, <<"N", "H">>>>,
     <<<<"n", "e", "w", " ", "j", "e", "r", "s", "e", "y">>, <<"N", "J">>>>,
     <<<<"n", "e", "w", " ", "m", "e", "x", "i", "c", "o">>, <<"N", "M">>>>,
     <<<<"n", "e", "w", " ", "y", "o", "r", "k">>, <<"N", "Y">>>>,
     <<<<"n", "o", "r", "t", "h", " ", "c", "a", "r", "o", "l", "i", "n", "a">>, <<"N", "C">>>>,
     <<<<"n", "o", "r", "t", "h", " ", "d", "a", "k", "o", "t", "a">>, <<"N", "D">>>>,
     <<<<"o", "h", "i", "o">>, <<"O", "H">>>>,
     <<<<"o", "k", "l", "a", "h", "o", "m", "a">>, <<"O", "K">>>>,
     <<<<"o", "r", "e", "g", "o", "n">>, <<"O", "R">>>>,
     <<<<"p", "e", "n", "n", "s", "y", "l", "v", "a", "n", "i", "a">>, <<"P", "A">>>>,
     <<<<"r", "h", "o", "d", "e", " ", "i", "s", "l", "a", "n", "d">>, <<"R", "I">>>>,
     <<<<"s", "o", "u", "t", "h", " ", "c", "a", "r", "o", "l", "i", "n", "a">>, <<"S", "C">>>>,
     <<<<"s", "o", "u", "t", "h", " ", "d", "a", "k", "o", "t", "a">>, <<"S", "D">>>>,
     <<<<"t", "e", "n", "n", "e", "s", "s", "e", "e">>, <<"T", "N">>>>,
     <<<<"t", "e", "x", "a", "s">>, <<"T", "X">>>>,
     <<<<"u", "t", "a", "h">>, <<"U", "T">>>>,
     <<<<"v", "e", "r", "m", "o", "n", "t">>, <<"V", "T">>>>,
     <<<<"v", "i", "r", "g", "i", "n", "i", "a">>, <<"V", "A">>>>,
     <<<<"w", "a", "s", "h", "i", "n", "g", "t", "o", "n">>, <<"W", "A">>>>,
     <<<<"w", "e", "s", "t", " ", "v", "i", "r", "g", "i", "n", "i", "a">>, <<"W", "V">>>>,
     <<<<"w", "i", "s", "c", "o", "n", "s", "i", "n">>, <<"W", "I">>>>,
     <<<<"w", "y", "o", "m", "i", "n", "g">>, <<"W", "Y">>>>,
     <<<<"d", "i", "s", "t", "r", "i", "c", "t", " ", "o", "f", " ", "c", "o", "l", "u", "m", "b", "i", "a">>, <<"D", "C">>>>}

STATE_ABBREVS == {entry[2] : entry \in US_STATES}

\* /\b(\d{5}(?:-\d{4})?)\b/
usZipRegex ==
    Concat(<<WordBoundary,
             Group(1, Concat(<<Repeat(Digit, 5, 5),
                               Optional(Concat(<<Chars({"-"}), Repeat(Digit, 4, 4)>>))>>)),
             WordBoundary>>)

\* /\b([A-Z]\d[A-Z]\s?\d[A-Z]\d)\b/i
caPostalRegex ==
    Concat(<<WordBoundary,
             Group(1, Concat(<<Chars(LowerSet), Digit, Chars(LowerSet),
                               Optional(Chars(Spaces)),
                               Digit, Chars(LowerSet), Digit>>)),
             WordBoundary>>)

\* /\b(USA|United States|US|Canada|CA)\b/gi
countryRegex ==
    Concat(<<WordBoundary,
             Group(1, Either(<<Literal(<<"u", "s", "a">>),
                               Literal(<<"u", "n", "i", "t", "e", "d", " ",
                                         "s", "t", "a", "t", "e", "s">>),
                               Literal(<<"u", "s">>),
                               Literal(<<"c", "a", "n", "a", "d", "a">>),
                               Literal(<<"c", "a">>)>>)),
             WordBoundary>>)

\* (?:apt\.?|apartment|unit|suite|ste\.?|#)
UnitKeyword ==
    Either(<<Concat(<<Literal(<<"a", "p", "t">>), Optional(Chars({"."}))>>),
             Literal(<<"a", "p", "a", "r", "t", "m", "e", "n", "t">>),
             Literal(<<"u", "n", "i", "t">>),
             Literal(<<"s", "u", "i", "t", "e">>),
             Concat(<<Literal(<<"s", "t", "e">>), Optional(Chars({"."}))>>),
             Chars({"#"})>>)

AnyChar == NotChars({"\n", "\r"})

\* /(?:apt\.?|apartment|unit|suite|ste\.?|#)\s*([a-z0-9-]+)/i
unitRegex ==
    Concat(<<UnitKeyword, AnySpaces,
             Group(1, Repeat(Chars(LowerSet \cup Digits \cup {"-"}), 1, Unlimited))>>)

\* /^(\d+(?:-\d+)?[a-z]?)\s+(.+?)
\*  (?:\s+(?:apt\.?|apartment|unit|suite|ste\.?|#).*)?$/i
streetRegex ==
    Concat(<<LineStart,
             Group(1, Concat(<<Repeat(Digit, 1, Unlimited),
                               Optional(Concat(<<Chars({"-"}),
                                                 Repeat(Digit, 1, Unlimited)>>)),
                               Optional(Chars(LowerSet))>>)),
             SomeSpaces,
             Group(2, RepeatLazy(AnyChar, 1, Unlimited)),
             Optional(Concat(<<SomeSpaces, UnitKeyword,
                               Repeat(AnyChar, 0, Unlimited)>>)),
             LineEnd>>)

\* s.replace(sub, ''), sub a string: s without the first occurrence of sub
RemoveFirst(s, sub) ==
    LET places == {k \in 1..(Len(s) - Len(sub) + 1) :
                      SubSeq(s, k, k + Len(sub) - 1) = sub}
    IN  IF places = {} THEN s
        ELSE LET k == CHOOSE p \in places : \A q \in places : p <= q
             IN  SubSeq(s, 1, k - 1) \o SubSeq(s, k + Len(sub), Len(s))

\* s.replace(r, '') for a global pattern: s from place k on without the
\* matches found
RECURSIVE RemoveMatches(_, _, _)
RemoveMatches(s, found, k) ==
    IF found = <<>> THEN SubSeq(s, k, Len(s))
    ELSE SubSeq(s, k, Head(found).from - 1)
            \o RemoveMatches(s, Tail(found), Head(found).to)

\* .replace(/,.*$/, '')
CutAtComma(s) ==
    LET commas == {k \in 1..Len(s) : s[k] = ","}
    IN  IF commas = {} THEN s
        ELSE SubSeq(s, 1, (CHOOSE k \in commas : \A q \in commas : k <= q) - 1)

\* what the two postal code matches make of the normalized address: the
\* code, the country it tells, and the address without the code
PostalCodeFrom(normalized, usZipMatch, caPostalMatch) ==
    IF usZipMatch.from # 0
    THEN [postalCode |-> GroupOf(normalized, usZipMatch, 1),
          country |-> <<"U", "S", "A">>,
          rest |-> trim(RemoveFirst(normalized, TextOf(normalized, usZipMatch)))]
    ELSE IF caPostalMatch.from # 0
    THEN [postalCode |->
              [k \in 1..(caPostalMatch.groups[1][2] - caPostalMatch.groups[1][1]) |->
                  IF normalized[caPostalMatch.groups[1][1] + k - 1] \in Spaces
                  THEN " "
                  ELSE toUpperChar(normalized[caPostalMatch.groups[1][1] + k - 1])],
          country |-> <<"C", "a", "n", "a", "d", "a">>,
          rest |-> trim(RemoveFirst(normalized, TextOf(normalized, caPostalMatch)))]
    ELSE [postalCode |-> <<>>, country |-> <<>>, rest |-> normalized]

\* the street fields that the two matches in the first part give
StreetFrom(streetPart, unitMatch, streetMatch) ==
    [streetNumber |-> IF streetMatch.from # 0
                      THEN GroupOf(streetPart, streetMatch, 1) ELSE <<>>,
     streetName |-> IF streetMatch.from # 0
                    THEN trim(CutAtComma(GroupOf(streetPart, streetMatch, 2)))
                    ELSE trim(CutAtComma(streetPart)),
     unit |-> IF unitMatch.from # 0 THEN GroupOf(streetPart, unitMatch, 1)
              ELSE <<>>]

\* result.streetAddress
StreetAddress(street) ==
    (IF street.streetNumber # <<>>
     THEN street.streetNumber \o <<" ">> \o street.streetName
     ELSE street.streetName)
        \o (IF street.unit # <<>> THEN <<" ", "#">> \o street.unit ELSE <<>>)

NoStreet == [streetNumber |-> <<>>, streetName |-> <<>>, unit |-> <<>>]

\* the state of the third part
StateOf(statePart) ==
    IF toUpperCase(statePart) \in STATE_ABBREVS THEN toUpperCase(statePart)
    ELSE IF \E entry \in US_STATES : entry[1] = toLowerCase(statePart)
    THEN (CHOOSE entry \in US_STATES : entry[1] = toLowerCase(statePart))[2]
    ELSE statePart

\* city.split(/\s+/)
CityWords(city) ==
    SplitWords([k \in 1..Len(city) |-> IF city[k] \in Spaces THEN " " ELSE city[k]],
               1, <<>>)

\* city and state when the third part gave no state: a last word of the
\* city that is an abbreviation becomes the state
CityState(city, state, cityStateParts) ==
    IF /\ state = <<>>
       /\ city # <<>>
       /\ Len(cityStateParts) >= 2
       /\ toUpperCase(cityStateParts[Len(cityStateParts)]) \in STATE_ABBREVS
    THEN [state |-> toUpperCase(cityStateParts[Len(cityStateParts)]),
          city |-> JoinWith(SubSeq(cityStateParts, 1, Len(cityStateParts) - 1),
                            <<" ">>)]
    ELSE [state |-> state, city |-> city]

EmptyAddress ==
    [original |-> <<>>, streetNumber |-> <<>>, streetName |-> <<>>,
     unit |-> <<>>, city |-> <<>>, state |-> <<>>, postalCode |-> <<>>,
     country |-> <<>>, streetAddress |-> <<>>]

\* .map(p => p.trim()).filter(p => p.length > 0)
TrimmedParts(pieces) ==
    SelectSeq([k \in 1..Len(pieces) |-> trim(pieces[k])], LAMBDA p : p # <<>>)

\* the result assembled
AddressOf(address, postal, street, cityState) ==
    [original |-> address,
     streetNumber |-> street.streetNumber,
     streetName |-> street.streetName,
     unit |-> street.unit,
     city |-> cityState.city,
     state |-> cityState.state,
     postalCode |-> postal.postalCode,
     country |-> postal.country,
     streetAddress |-> StreetAddress(street)]

\* the street fields of the first part
StreetOf(streetPart) ==
    The({StreetFrom(streetPart, unitMatch, streetMatch) :
            unitMatch \in {Search(unitRegex, streetPart, TRUE, 1)},
            streetMatch \in {Search(streetRegex, streetPart, TRUE, 1)}})

\* city and state of the parts
CityStateOf(parts) ==
    The({CityState(city, state, CityWords(city)) :
            city \in {IF Len(parts) >= 2 THEN parts[2] ELSE <<>>},
            state \in {IF Len(parts) >= 3 THEN StateOf(trim(parts[3])) ELSE <<>>}})

\* parseAddress from the split at the commas on
AddressOfParts(address, postal, parts) ==
    The({AddressOf(address, postal, street, cityState) :
            street \in {IF Len(parts) >= 1 THEN StreetOf(parts[1]) ELSE NoStreet},
            cityState \in {CityStateOf(parts)}})

\* parseAddress from the removal of the country names on
AddressAfterPostalCode(address, postal) ==
    The({AddressOfParts(address, postal, parts) :
            parts \in {TrimmedParts(pieces) : pieces \in {SplitOn(trim(RemoveMatches(postal.rest,
                                    MatchesFrom(countryRegex, postal.rest, TRUE, 1),
                                    1)),
                                ",", 1, <<>>)}}})

\* parseAddress from the search of the postal code on
AddressOfNormalized(address, normalized) ==
    The({AddressAfterPostalCode(address, postal) :
            postal \in {PostalCodeFrom(normalized, usZipMatch, caPostalMatch) :
                          usZipMatch \in {Search(usZipRegex, normalized, FALSE, 1)},
                          caPostalMatch \in {Search(caPostalRegex, normalized, TRUE, 1)}}})

\* parseAddress on a string
parseAddress(address) ==
    IF address = <<>> THEN EmptyAddress
    ELSE The({AddressOfNormalized(address, normalized) :
                normalized \in {NormalizeSpaces(address)}})

----------------------------------------------------------------------------
(* SpecAddress: one call of parseAddress *)

\* "1 Main St" and "12-14b Oak Ave Apt 5"
Streets ==
    {<<"1", " ", "M", "a", "i", "n", " ", "S", "t">>,
     <<"1", "2", "-", "1", "4", "b", " ", "O", "a", "k", " ", "A", "v", "e",
       " ", "A", "p", "t", " ", "5">>}

\* "Elm Court"
ElmCourt == <<"E", "l", "m", " ", "C", "o", "u", "r", "t">>

\* "Austin", "Los Angeles", "Salem OR", "Reno nv" and "Sacramento CA"
Cities ==
    {<<"A", "u", "s", "t", "i", "n">>,
     <<"L", "o", "s", " ", "A", "n", "g", "e", "l", "e", "s">>,
     <<"S", "a", "l", "e", "m", " ", "O", "R">>,
     <<"R", "e", "n", "o", " ", "n", "v">>,
     <<"S", "a", "c", "r", "a", "m", "e", "n", "t", "o", " ", "C", "A">>}

\* every abbreviation, some in lower case, "Texas", "new york", "California",
\* "Ontario", and no state part
StateParts ==
    STATE_ABBREVS
        \cup {<<"t", "x">>, <<"c", "a">>, <<"N", "y">>,
              <<"T", "e", "x", "a", "s">>,
              <<"n", "e", "w", " ", "y", "o", "r", "k">>,
              <<"C", "a", "l", "i", "f", "o", "r", "n", "i", "a">>,
              <<"O", "n", "t", "a", "r", "i", "o">>,
              <<>>}

\* "78701" and "78701-1234"
ZipCode == <<"7", "8", "7", "0", "1">>
ZipPlusFour == <<"7", "8", "7", "0", "1", "-", "1", "2", "3", "4">>

\* "24 Sussex Dr, Ottawa, ON K1A 0B1, Canada"
OttawaAddress ==
    <<"2", "4", " ", "S", "u", "s", "s", "e", "x", " ", "D", "r", ",", " ",
      "O", "t", "t", "a", "w", "a", ",", " ", "O", "N", " ", "K", "1", "A",
      " ", "0", "B", "1", ",", " ", "C", "a", "n", "a", "d", "a">>

\* "street, city, state ZIP, USA", the last three parts only if not empty
Address(street, city, state, zip, country) ==
    street \o <<",", " ">> \o city
        \o (IF state # <<>> THEN <<",", " ">> \o state ELSE <<>>)
        \o (IF zip # <<>> THEN <<" ">> \o zip ELSE <<>>)
        \o (IF country # <<>> THEN <<",", " ">> \o country ELSE <<>>)

Addresses ==
    {Address(street, city, state, zip, <<>>) :
        street \in Streets, city \in Cities, state \in StateParts,
        zip \in {<<>>, ZipCode}}
    \cup {Address(ElmCourt, city, state, ZipPlusFour, <<"U", "S", "A">>) :
            city \in Cities, state \in {<<>>, <<"T", "X">>, <<"c", "a">>}}
    \cup {OttawaAddress, ElmCourt}

InitAddress ==
    /\ fn = "none"
    /\ str1 \in Addresses
    /\ str2 = <<>>
    /\ prefixScale = DefaultPrefixScale
    /\ ret = Zero
    /\ DedupIdle
    /\ KeysIdle

ParseAddressCall ==
    /\ fn = "none"
    /\ fn' = "parseAddress"
    /\ ret' = parseAddress(str1)
    /\ UNCHANGED <<str1, str2, prefixScale, dedupVars, keyVars>>

NextAddress == ParseAddressCall

SpecAddress == InitAddress /\ [][NextAddress]_vars

\* a ZIP code: five digits, or five digits, a hyphen and four digits
IsZip(token) ==
    /\ Len(token) \in {5, 10}
    /\ \A k \in 1..Len(token) :
          IF k = 6 THEN token[k] = "-" ELSE token[k] \in Digits

\* the words of a part of an address without a ZIP code at its end
WordsBeforeZip(part) ==
    LET words == SplitWords(part, 1, <<>>)
    IN  IF words # <<>> /\ IsZip(words[Len(words)])
        THEN SubSeq(words, 1, Len(words) - 1)
        ELSE words

\* the parts of an address between its commas
CommaParts(address) ==
    LET pieces == SplitOn(address, ",", 1, <<>>)
    IN  [k \in 1..Len(pieces) |-> trim(pieces[k])]

(* C24: of "street, city, ST", with or without a ZIP code and ST a state     *)
(* abbreviation of the table in any letter case, parseAddress returns ST in  *)
(* upper case as state and the city part as city; a full state name in the   *)
(* place of ST gives its abbreviation; and without a third part, a last word *)
(* of the city that is an abbreviation becomes the state and leaves the city.*)
C24_StateAndCity ==
    (fn = "parseAddress") =>
        LET parts == CommaParts(str1)
            third == IF Len(parts) = 3 THEN WordsBeforeZip(parts[3]) ELSE <<>>
            named == JoinWith(third, <<" ">>)
            cityWords == IF Len(parts) = 2 THEN WordsBeforeZip(parts[2]) ELSE <<>>
        IN  /\ (Len(third) = 1 /\ toUpperCase(third[1]) \in STATE_ABBREVS) =>
                  /\ ret.state = toUpperCase(third[1])
                  /\ ret.city = parts[2]
            /\ (\E entry \in US_STATES : entry[1] = toLowerCase(named)) =>
                  /\ \E entry \in US_STATES :
                        entry[1] = toLowerCase(named) /\ ret.state = entry[2]
                  /\ ret.city = parts[2]
            /\ (/\ Len(cityWords) >= 2
                /\ toUpperCase(cityWords[Len(cityWords)]) \in STATE_ABBREVS) =>
                  /\ ret.state = toUpperCase(cityWords[Len(cityWords)])
                  /\ ret.city = JoinWith(SubSeq(cityWords, 1, Len(cityWords) - 1),
                                         <<" ">>)

----------------------------------------------------------------------------
(* Usernames: parseUsername *)

UsernameSeparators == {"_", ".", "-"}

\* .replace(/^[@#]/g, '').replace(/[0-9]+$/g, '')
RECURSIVE StripTrailingDigits(_)
StripTrailingDigits(s) ==
    IF s # <<>> /\ s[Len(s)] \in Digits
    THEN StripTrailingDigits(SubSeq(s, 1, Len(s) - 1))
    ELSE s

CleanedUsername(username) ==
    StripTrailingDigits(IF username # <<>> /\ username[1] \in {"@", "#"}
                        THEN Tail(username) ELSE username)

\* .split(/[_.-]+/).filter(p => p.length > 0): the parts of s from place k
\* on, "piece" being the part under construction
RECURSIVE SplitAtSeparators(_, _, _)
SplitAtSeparators(s, k, piece) ==
    IF k > Len(s)
    THEN IF piece = <<>> THEN <<>> ELSE <<piece>>
    ELSE IF s[k] \in UsernameSeparators
         THEN (IF piece = <<>> THEN <<>> ELSE <<piece>>)
                  \o SplitAtSeparators(s, k + 1, <<>>)
         ELSE SplitAtSeparators(s, k + 1, Append(piece, s[k]))

\* the parts of a cleaned username
UsernameParts(cleaned) ==
    IF \E k \in 1..Len(cleaned) : cleaned[k] \in UsernameSeparators
    THEN SplitAtSeparators(cleaned, 1, <<>>)
    ELSE LET marked == SplitLowerUpper(cleaned, 1)
             camelParts == SplitOn([k \in 1..Len(marked) |->
                                       IF marked[k] = "_" THEN " " ELSE marked[k]],
                                   " ", 1, <<>>)
         IN  IF Len(camelParts) > 1 THEN camelParts ELSE <<cleaned>>

\* parseUsername on a string
parseUsername(username) ==
    IF username = <<>> THEN EmptyName
    ELSE
    LET split == UsernameParts(CleanedUsername(username))
        parts == [k \in 1..Len(split) |-> toTitleCase(split[k])]
        firstName == IF parts = <<>> THEN <<>> ELSE parts[1]
        lastName == IF Len(parts) >= 2 THEN parts[Len(parts)] ELSE <<>>
        middleName == IF Len(parts) >= 3 THEN MiddleOf(parts) ELSE <<>>
        names == <<firstName, middleName, lastName>>
    IN  [full |-> JoinWith(SelectSeq(names, LAMBDA n : n # <<>>), <<" ">>),
         firstName |-> firstName,
         middleName |-> middleName,
         lastName |-> lastName,
         prefix |-> <<>>,
         suffix |-> <<>>,
         initials |-> Initials(names)]

----------------------------------------------------------------------------
(* SpecParsers: one call of one of the five parsers on any value *)

\* !value of JavaScript
Falsy(value) ==
    \/ value.type \in {"null", "undefined"}
    \/ value.type = "string" /\ value.text = <<>>
    \/ value.type = "number" /\ value.text = <<"0">>

\* value || ''
OrEmpty(value) ==
    IF Falsy(value) THEN <<>>
    ELSE IF value.type = "string" THEN value.text ELSE value

\* "12345 ext. 9", "john_doe42", "a@b.co 7", "hello" and "@"
ShortWithExtension ==
    <<"1", "2", "3", "4", "5", " ", "e", "x", "t", ".", " ", "9">>
JohnDoe42 == <<"j", "o", "h", "n", "_", "d", "o", "e", "4", "2">>
EmailAndNumber == <<"a", "@", "b", ".", "c", "o", " ", "7">>
Hello == <<"h", "e", "l", "l", "o">>

ParserInputs ==
    {NullValue, UndefinedValue, NumberValue(<<"4", "2">>), NumberValue(<<"0">>),
     JsonObject(<<>>), JsonArray(<<>>)}
    \cup {StringValue(s) :
            s \in {<<>>, <<" ">>, <<",">>, <<" ", ",", " ">>, <<"@">>, <<"_", "-">>,
                   <<"4", "2">>, <<"#", "7">>, <<"U", "S">>, <<"x">>, Hello,
                   ShortWithExtension, JohnDoe42, EmailAndNumber, DrJohnSmithJr,
                   FormattedUsNumber, ElmCourt}}

InitParsers ==
    /\ fn = "none"
    /\ str1 = <<>>
    /\ str2 = <<>>
    /\ prefixScale = DefaultPrefixScale
    /\ ret = Zero
    /\ DedupIdle
    /\ inputJson \in ParserInputs
    /\ keyFormat = "snake_case"
    /\ transformedJson = [type |-> "undefined", text |-> <<>>]

IsString(value) == value.type = "string" /\ value.text # <<>>

ParseNameOfValue ==
    /\ fn = "none"
    /\ fn' = "parseName"
    /\ ret' = IF IsString(inputJson) THEN parseName(inputJson.text) ELSE EmptyName
    /\ UNCHANGED <<str1, str2, prefixScale, dedupVars, keyVars>>

ParseUsernameOfValue ==
    /\ fn = "none"
    /\ fn' = "parseUsername"
    /\ ret' = IF IsString(inputJson) THEN parseUsername(inputJson.text)
              ELSE [EmptyName EXCEPT !.full = OrEmpty(inputJson)]
    /\ UNCHANGED <<str1, str2, prefixScale, dedupVars, keyVars>>

ParsePhoneNumberOfValue ==
    /\ fn = "none"
    /\ fn' = "parsePhoneNumber"
    /\ \E defaultCountryCode \in {<<"1">>, <<"4", "4">>} :
          ret' = IF IsString(inputJson)
                 THEN parsePhoneNumber(inputJson.text, defaultCountryCode)
                 ELSE DefaultParsedPhoneNumber(OrEmpty(inputJson))
    /\ UNCHANGED <<str1, str2, prefixScale, dedupVars, keyVars>>

ParseAddressOfValue ==
    /\ fn = "none"
    /\ fn' = "parseAddress"
    /\ ret' = IF IsString(inputJson) THEN parseAddress(inputJson.text)
              ELSE [EmptyAddress EXCEPT !.original = OrEmpty(inputJson)]
    /\ UNCHANGED <<str1, str2, prefixScale, dedupVars, keyVars>>

ExtractFromTextOfValue ==
    /\ fn = "none"
    /\ fn' = "extractFromText"
    /\ ret' = IF IsString(inputJson) THEN extractFromText(inputJson.text)
              ELSE EmptyExtractedData
    /\ UNCHANGED <<str1, str2, prefixScale, dedupVars, keyVars>>

NextParsers ==
    \/ ParseNameOfValue
    \/ ParseUsernameOfValue
    \/ ParsePhoneNumberOfValue
    \/ ParseAddressOfValue
    \/ ExtractFromTextOfValue

SpecParsers == InitParsers /\ [][NextParsers]_vars

\* a string the named parser can make nothing of: a name without a token, a
\* username of separators or of digits only after its @ or #, a phone number
\* whose digits, the extension apart, are fewer than 7 or more than 15, an
\* address of commas and white space, a text of letters and white space
Unparseable(parser, s) ==
    CASE parser = "parseName" -> ReorderedTokens(s) = <<>>
      [] parser = "parseUsername" ->
            LET name == IF s # <<>> /\ s[1] \in {"@", "#"} THEN Tail(s) ELSE s
            IN  \/ \A k \in 1..Len(name) : name[k] \in UsernameSeparators
                \/ \A k \in 1..Len(name) : name[k] \in Digits
      [] parser = "parsePhoneNumber" ->
            Len(DigitsWithoutExtension(s)) \notin 7..MaxE164Digits
      [] parser = "parseAddress" ->
            \A k \in 1..Len(s) : s[k] \in WhiteSpace \cup {","}
      [] parser = "extractFromText" ->
            \A k \in 1..Len(s) : s[k] \in Letters \cup WhiteSpace

\* the fields of a result that repeat the input
EchoFields == {"original", "full"}

(* C22: a parser that is given a value that is not a string, null, or a      *)
(* string it cannot parse returns its default object: every field, the one   *)
(* that repeats the input apart, is the empty string, false or the empty     *)
(* list.                                                                     *)
C22_SoftFail ==
    (/\ fn \in {"parseName", "parseUsername", "parsePhoneNumber",
                "parseAddress", "extractFromText"}
     /\ (inputJson.type # "string" \/ Unparseable(fn, inputJson.text))) =>
        \A field \in DOMAIN ret \ EchoFields :
            IF field = "isValid" THEN ret[field] = FALSE ELSE ret[field] = <<>>

====
